---------------------------- MODULE Spec2Model ----------------------------
(***************************************************************************)
(* Frozen-core orbital selection of pyscf.dh.util.frozen_core:             *)
(* ElementConfiguration, the FrozenRule registry, the frozen-number        *)
(* resolver parse_frozen_numbers and the FrozenCore mask builder with its  *)
(* memoized mask / frozen-index caches.                                    *)
(*                                                                         *)
(* Python values are records [tag, v]; numpy arrays are [shape, flat]      *)
(* (row-major); strings are sequences of one-character strings so that the *)
(* name normalisation is computed, not assumed.  An operation's outcome is *)
(* a record [exc, at, val]: exc = "none" and the returned value, or the    *)
(* exception's type and the function that raised it.                       *)
(***************************************************************************)
EXTENDS Integers, Sequences, FiniteSets, TLC

VARIABLES
    mol,        \* self.mol: [atoms, nelectron]
    mo_occ,     \* self.mo_occ: array
    mo_energy,  \* self.mo_energy: PyNone or PyArray
    rule,       \* self.rule: Python value
    ecp_only,   \* self.ecp_only
    _mask,      \* self._mask: NotImplemented or the cached mask array
    _frozen,    \* self._frozen: NotImplemented or the cached index list(s)
    ret,        \* outcome of the operation performed last
    nEval,      \* get_active_mask evaluations started by mask since the last reset
    nOk,        \* ... of which returned
    lastRead,   \* value the last returning mask read gave since the last reset
    firstRes,   \* outcome get_active_mask had at the first access since the last reset
    snapOk,     \* inputs as they stood when the cached mask was computed
    pending     \* arguments of the ElementConfiguration call about to be made

vars == <<mol, mo_occ, mo_energy, rule, ecp_only, _mask, _frozen,
          ret, nEval, nOk, lastRead, firstRes, snapOk, pending>>

inputs == <<mol, mo_occ, mo_energy, rule, ecp_only, pending>>
history == <<nEval, nOk, lastRead, firstRes, snapOk>>

-----------------------------------------------------------------------------
(* Bounds of the model *)

\* occupation numbers are stored in units of 1/Den electron
Den == 2
\* the evaluation counters saturate here
MaxEval == 2
\* virtual (empty) orbitals appended to the occupied ones: 1..MaxVirt
MaxVirt == 2
\* orbital energies and window bounds range over -MaxEnergy..MaxEnergy
MaxEnergy == 2
\* RDHBase objects have 1..MaxOrbitals molecular orbitals
MaxOrbitals == 4
\* frozen electron counts handed to parse_active_mask_by_elec range over
\* -2..MaxFrozen
MaxFrozen == 10
\* level counts handed to get_active_table range over 0..MaxCount
MaxCount == 2

-----------------------------------------------------------------------------
(* Python values and outcomes *)

PyNone == [tag |-> "None", v |-> 0]
PyInt(n) == [tag |-> "int", v |-> n]
PyFloat(x) == [tag |-> "float", v |-> x]
PyStr(s) == [tag |-> "str", v |-> s]
PyTuple(items) == [tag |-> "tuple", v |-> items]
PyList(items) == [tag |-> "list", v |-> items]
PyDict(pairs) == [tag |-> "dict", v |-> pairs]
PyArray(a) == [tag |-> "ndarray", v |-> a]
PyRule(key) == [tag |-> "FrozenRuleBase", v |-> key]

NotImplemented == [tag |-> "NotImplemented", v |-> 0]

Ok(x) == [exc |-> "none", at |-> "", val |-> x]
Raise(e, site) == [exc |-> e, at |-> site, val |-> 0]
\* the rest of a function after a call: an exception propagates, a returned
\* value goes on to F
Bind(r, F(_)) == IF r.exc # "none" THEN r ELSE F(r.val)
NoCall == [op |-> "", exc |-> "none", at |-> "", val |-> 0, arg |-> 0]
Called(name, res, a) ==
    [op |-> name, exc |-> res.exc, at |-> res.at, val |-> res.val, arg |-> a]

Min(a, b) == IF a <= b THEN a ELSE b
Max(a, b) == IF a >= b THEN a ELSE b

RECURSIVE SumSeq(_)
SumSeq(s) == IF s = <<>> THEN 0 ELSE Head(s) + SumSeq(Tail(s))

RECURSIVE MaxSeq(_)
MaxSeq(s) == IF Len(s) = 1 THEN s[1] ELSE Max(Head(s), MaxSeq(Tail(s)))

RECURSIVE MinSeq(_)
MinSeq(s) == IF Len(s) = 1 THEN s[1] ELSE Min(Head(s), MinSeq(Tail(s)))

RECURSIVE Prod(_)
Prod(s) == IF s = <<>> THEN 1 ELSE Head(s) * Prod(Tail(s))

-----------------------------------------------------------------------------
(* numpy arrays: [shape, flat], row-major *)

Arr1(xs) == [shape |-> <<Len(xs)>>, flat |-> xs]
Arr2(rows) ==
    [shape |-> <<Len(rows), Len(rows[1])>>,
     flat |-> [k \in 1..(Len(rows) * Len(rows[1])) |->
                  rows[((k - 1) \div Len(rows[1])) + 1][((k - 1) % Len(rows[1])) + 1]]]
Arr3(rows) == [shape |-> <<1>> \o Arr2(rows).shape, flat |-> Arr2(rows).flat]

ndim(a) == Len(a.shape)
\* a.reshape((1, -1))
Reshape1(a) == [shape |-> <<1, Len(a.flat)>>, flat |-> a.flat]
\* a.shape = shape, for a shape of the same size
WithShape(a, shape) == [shape |-> shape, flat |-> a.flat]
\* element [c, j] of a 2-D array, 0-based
At(a, c, j) == a.flat[c * a.shape[2] + j + 1]
\* the 2-D array with element [c, j] given by f
Build2(nset, nmo, f(_, _)) ==
    [shape |-> <<nset, nmo>>,
     flat |-> [k \in 1..(nset * nmo) |-> f((k - 1) \div nmo, (k - 1) % nmo)]]

-----------------------------------------------------------------------------
(* ElementConfiguration *)

MAX_LEVEL == 7
MAX_ANG == 4

\* pyscf.data.elements.CONFIGURATION: electrons per angular momentum
\* (s, p, d, f) of the ghost atom X and the elements H .. Og; the row of
\* element Z is CONFIGURATION[Z + 1]
CONFIGURATION ==
    <<<<0, 0, 0, 0>>, <<1, 0, 0, 0>>, <<2, 0, 0, 0>>, <<3, 0, 0, 0>>,
      <<4, 0, 0, 0>>, <<4, 1, 0, 0>>, <<4, 2, 0, 0>>, <<4, 3, 0, 0>>,
      <<4, 4, 0, 0>>, <<4, 5, 0, 0>>, <<4, 6, 0, 0>>, <<5, 6, 0, 0>>,
      <<6, 6, 0, 0>>, <<6, 7, 0, 0>>, <<6, 8, 0, 0>>, <<6, 9, 0, 0>>,
      <<6, 10, 0, 0>>, <<6, 11, 0, 0>>, <<6, 12, 0, 0>>, <<7, 12, 0, 0>>,
      <<8, 12, 0, 0>>, <<8, 12, 1, 0>>, <<8, 12, 2, 0>>, <<8, 12, 3, 0>>,
      <<7, 12, 5, 0>>, <<8, 12, 5, 0>>, <<8, 12, 6, 0>>, <<8, 12, 7, 0>>,
      <<8, 12, 8, 0>>, <<7, 12, 10, 0>>, <<8, 12, 10, 0>>, <<8, 13, 10, 0>>,
      <<8, 14, 10, 0>>, <<8, 15, 10, 0>>, <<8, 16, 10, 0>>, <<8, 17, 10, 0>>,
      <<8, 18, 10, 0>>, <<9, 18, 10, 0>>, <<10, 18, 10, 0>>,
      <<10, 18, 11, 0>>, <<10, 18, 12, 0>>, <<9, 18, 14, 0>>,
      <<9, 18, 15, 0>>, <<10, 18, 15, 0>>, <<9, 18, 17, 0>>,
      <<9, 18, 18, 0>>, <<8, 18, 20, 0>>, <<9, 18, 20, 0>>,
      <<10, 18, 20, 0>>, <<10, 19, 20, 0>>, <<10, 20, 20, 0>>,
      <<10, 21, 20, 0>>, <<10, 22, 20, 0>>, <<10, 23, 20, 0>>,
      <<10, 24, 20, 0>>, <<11, 24, 20, 0>>, <<12, 24, 20, 0>>,
      <<12, 24, 21, 0>>, <<12, 24, 21, 1>>, <<12, 24, 20, 3>>,
      <<12, 24, 20, 4>>, <<12, 24, 20, 5>>, <<12, 24, 20, 6>>,
      <<12, 24, 20, 7>>, <<12, 24, 21, 7>>, <<12, 24, 21, 8>>,
      <<12, 24, 20, 10>>, <<12, 24, 20, 11>>, <<12, 24, 20, 12>>,
      <<12, 24, 20, 13>>, <<12, 24, 20, 14>>, <<12, 24, 21, 14>>,
      <<12, 24, 22, 14>>, <<12, 24, 23, 14>>, <<12, 24, 24, 14>>,
      <<12, 24, 25, 14>>, <<12, 24, 26, 14>>, <<12, 24, 27, 14>>,
      <<11, 24, 29, 14>>, <<11, 24, 30, 14>>, <<12, 24, 30, 14>>,
      <<12, 25, 30, 14>>, <<12, 26, 30, 14>>, <<12, 27, 30, 14>>,
      <<12, 28, 30, 14>>, <<12, 29, 30, 14>>, <<12, 30, 30, 14>>,
      <<13, 30, 30, 14>>, <<14, 30, 30, 14>>, <<14, 30, 31, 14>>,
      <<14, 30, 32, 14>>, <<14, 30, 31, 16>>, <<14, 30, 31, 17>>,
      <<14, 30, 31, 18>>, <<14, 30, 30, 20>>, <<14, 30, 30, 21>>,
      <<14, 30, 31, 21>>, <<14, 30, 31, 22>>, <<14, 30, 30, 24>>,
      <<14, 30, 30, 25>>, <<14, 30, 30, 26>>, <<14, 30, 30, 27>>,
      <<14, 30, 30, 28>>, <<14, 30, 31, 28>>, <<14, 30, 32, 28>>,
      <<14, 30, 33, 28>>, <<14, 30, 34, 28>>, <<14, 30, 35, 28>>,
      <<14, 30, 36, 28>>, <<14, 30, 37, 28>>, <<14, 30, 38, 28>>,
      <<14, 30, 39, 28>>, <<14, 30, 40, 28>>, <<14, 31, 40, 28>>,
      <<14, 32, 40, 28>>, <<14, 33, 40, 28>>, <<14, 34, 40, 28>>,
      <<14, 35, 40, 28>>, <<14, 36, 40, 28>>>>

\* pyscf.data.elements.charge on the symbols this model uses; an integer is
\* its own charge
ElementSymbols ==
    <<<<"H">>, <<"H", "e">>, <<"L", "i">>, <<"B", "e">>, <<"B">>, <<"C">>,
      <<"N">>, <<"O">>, <<"F">>, <<"N", "e">>, <<"N", "a">>, <<"M", "g">>,
      <<"A", "l">>, <<"S", "i">>, <<"P">>, <<"S">>, <<"C", "l">>, <<"A", "r">>>>
charge(key) ==
    IF key.tag = "int" THEN key.v
    ELSE CHOOSE Z \in 1..Len(ElementSymbols) : ElementSymbols[Z] = key.v

\* ElementConfiguration(element): self.element, or the ValueError of an
\* element beyond the table
ElementConfiguration(element) ==
    IF charge(element) > Len(CONFIGURATION) - 1
    THEN Raise("ValueError", "ElementConfiguration")
    ELSE Ok(charge(element))

\* the table that leaves the partially filled level out
get_configuration_table_full_levels(element) ==
    [n \in 0..(MAX_LEVEL - 1) |->
        [angular \in 0..(MAX_ANG - 1) |->
            IF angular <= n
                /\ n < angular + (CONFIGURATION[element + 1][angular + 1]
                                     \div (2 + 4 * angular))
            THEN 2 + 4 * angular
            ELSE 0]]

get_configuration_table(element) ==
    [n \in 0..(MAX_LEVEL - 1) |->
        [angular \in 0..(MAX_ANG - 1) |->
            LET angular_elec == CONFIGURATION[element + 1][angular + 1]
                angular_num == 2 + 4 * angular
                n_start == angular
                n_end == n_start + (angular_elec \div angular_num)
            IN  IF angular_elec = 0 THEN 0
                ELSE IF n_start <= n /\ n < n_end THEN angular_num
                ELSE IF n = n_end /\ n_end < MAX_LEVEL THEN angular_elec % angular_num
                ELSE 0]]

\* assert n_end <= MAX_LEVEL, for every column that holds electrons
configuration_assert(element) ==
    \A angular \in 0..(MAX_ANG - 1) :
        CONFIGURATION[element + 1][angular + 1] # 0 =>
            angular + (CONFIGURATION[element + 1][angular + 1] \div (2 + 4 * angular)) <= MAX_LEVEL

TableSum(table) ==
    SumSeq([k \in 1..(MAX_LEVEL * MAX_ANG) |->
               table[(k - 1) \div MAX_ANG][(k - 1) % MAX_ANG]])

\* the shell check that lets every column through
ColSum_none(table, k, angular) == 0

\* table[:k, angular].sum() for k >= 0
ColSum(table, k, angular) ==
    SumSeq([n \in 1..Min(k, MAX_LEVEL) |-> table[n - 1][angular]])

\* table[:k, angular] = 0 for k >= 0
ColZero(table, k, angular) ==
    [n \in 0..(MAX_LEVEL - 1) |->
        [l \in 0..(MAX_ANG - 1) |->
            IF l = angular /\ n < k THEN 0 ELSE table[n][l]]]

SetMax(S) == CHOOSE x \in S : \A y \in S : y <= x

\* the loop with the cut of every column taken from the column's own highest
\* non-empty level
RECURSIVE active_table_loop_own_column(_, _, _, _)
active_table_loop_own_column(table, level, is_active, angular) ==
    IF angular = Len(level) THEN Ok(table)
    ELSE
        LET active == level[angular + 1]
            non_empty_level == {n \in 0..(MAX_LEVEL - 1) : table[n][angular] > 0}
            freeze_level == SetMax(non_empty_level) - active + 1
        IN  IF ~is_active
            THEN IF ColSum(table, active, angular) % (2 + 4 * angular) # 0
                 THEN Raise("ValueError", "get_active_table")
                 ELSE active_table_loop_own_column(ColZero(table, active, angular),
                                                   level, is_active, angular + 1)
            ELSE IF non_empty_level = {}
                 THEN active_table_loop_own_column(table, level, is_active, angular + 1)
            ELSE IF freeze_level <= 0
                 THEN active_table_loop_own_column(table, level, is_active, angular + 1)
            ELSE IF ColSum(table, freeze_level, angular) % (2 + 4 * angular) # 0
                 THEN Raise("ValueError", "get_active_table")
            ELSE active_table_loop_own_column(ColZero(table, freeze_level, angular),
                                              level, is_active, angular + 1)

\* the loop "for angular, active in enumerate(level)" from column angular on
RECURSIVE active_table_loop(_, _, _, _)
active_table_loop(table, level, is_active, angular) ==
    IF angular = Len(level) THEN Ok(table)
    ELSE
        LET active == level[angular + 1]
            non_empty_level == {n \in 0..(MAX_LEVEL - 1) : table[n][0] > 0}
            freeze_level == SetMax(non_empty_level) - active + 1
        IN  IF ~is_active
            THEN IF ColSum(table, active, angular) % (2 + 4 * angular) # 0
                 THEN Raise("ValueError", "get_active_table")
                 ELSE active_table_loop(ColZero(table, active, angular),
                                        level, is_active, angular + 1)
            ELSE IF non_empty_level = {}
                 THEN active_table_loop(table, level, is_active, angular + 1)
            ELSE IF freeze_level <= 0
                 THEN active_table_loop(table, level, is_active, angular + 1)
            ELSE IF ColSum(table, freeze_level, angular) % (2 + 4 * angular) # 0
                 THEN Raise("ValueError", "get_active_table")
            ELSE active_table_loop(ColZero(table, freeze_level, angular),
                                   level, is_active, angular + 1)

\* level: PyInt(n) or PyList(vector)
get_active_table(element, level, is_active) ==
    IF ~configuration_assert(element)
    THEN Raise("AssertionError", "get_configuration_table")
    ELSE IF level.tag = "int"
    THEN Raise("TypeError", "get_active_table")     \* len(level) of an int
    ELSE IF Len(level.v) # MAX_ANG
    THEN Raise("AssertionError", "get_active_table")
    ELSE IF MinSeq(level.v) < 0
    THEN Raise("AssertionError", "get_active_table")
    ELSE active_table_loop(get_configuration_table(element), level.v, is_active, 0)

\* the count of the electrons left active instead of the frozen ones
get_num_core_electrons_active(element, active_level, by_valence) ==
    LET same(active_table) == Ok(TableSum(active_table))
    IN  Bind(get_active_table(element, active_level, by_valence), same)

get_num_core_electrons(element, active_level, by_valence) ==
    LET minus(active_table) ==
            Ok(TableSum(get_configuration_table(element)) - TableSum(active_table))
    IN  Bind(get_active_table(element, active_level, by_valence), minus)

-----------------------------------------------------------------------------
(* FrozenRuleBase and the registry *)

idx_alk_metal == {3, 4, 11, 12, 19, 20, 37, 38, 55, 56, 87, 88}
idx_transition == (21..30) \cup (39..48) \cup (72..80) \cup (104..112)
idx_p_main ==
    (5..10) \cup (13..18) \cup (31..36) \cup (49..54) \cup (81..86) \cup (113..118)
idx_la == 57..71
idx_ac == 89..103

\* every rule class given the levels of the noble-gas rule
active_levels_noble(cls, Z) == <<1, 1, 2, 3>>

\* define_active_levels of each rule class: the row of element Z after all
\* the assignments, the last assignment to a row winning
active_levels(cls, Z) ==
    CASE cls = "FrozenRuleNone" -> <<0, 0, 0, 0>>
      [] cls = "FrozenRuleORCA" ->
            IF Z \in 104..112 THEN <<1, 1, 2, 2>>
            ELSE IF Z \in idx_p_main THEN <<1, 1, 2, 2>>
            ELSE IF Z \in idx_transition THEN <<2, 2, 2, 3>>
            ELSE IF Z \in idx_ac \cup idx_la \cup idx_alk_metal THEN <<2, 2, 3, 3>>
            ELSE IF Z \in 0..2 THEN <<1, 1, 1, 1>>
            ELSE <<0, 0, 0, 0>>
      [] cls = "FrozenRuleNobleGasCore" -> <<1, 1, 2, 3>>
      [] cls = "FrozenRuleInnerNobleGasCore" -> <<2, 2, 3, 4>>
      [] cls = "FrozenRuleSmallCore" ->
            IF Z \in 3..4 THEN <<1, 1, 2, 3>>
            ELSE IF Z \in idx_alk_metal THEN <<2, 2, 2, 3>>
            ELSE <<1, 1, 2, 3>>
      [] cls = "FrozenRuleLargeCore" ->
            IF Z \in idx_transition THEN <<1, 1, 2, 2>>
            ELSE IF Z \in idx_p_main THEN <<1, 1, 1, 2>>
            ELSE <<1, 1, 2, 3>>

\* every rule class counting its levels from the valence side
is_active_always(cls) == TRUE

is_active(cls) == cls # "FrozenRuleNone"

get_num_core(cls, elem) ==
    LET chrg == charge(elem)
    IN  get_num_core_electrons(chrg, PyList(active_levels(cls, chrg)), is_active(cls))

\* re.sub("[-_ ]", "", s.lower()) on a sequence of characters
UpperCase ==
    <<"A", "B", "C", "D", "E", "F", "G", "H", "I", "J", "K", "L", "M",
      "N", "O", "P", "Q", "R", "S", "T", "U", "V", "W", "X", "Y", "Z">>
LowerCase ==
    <<"a", "b", "c", "d", "e", "f", "g", "h", "i", "j", "k", "l", "m",
      "n", "o", "p", "q", "r", "s", "t", "u", "v", "w", "x", "y", "z">>
lower(c) ==
    IF \E i \in 1..26 : UpperCase[i] = c
    THEN LowerCase[CHOOSE i \in 1..26 : UpperCase[i] = c]
    ELSE c
\* the normalisation lower-casing only
RECURSIVE normalize_keeping_separators(_)
normalize_keeping_separators(s) ==
    IF s = <<>> THEN <<>>
    ELSE <<lower(Head(s))>> \o normalize_keeping_separators(Tail(s))

RECURSIVE normalize(_)
normalize(s) ==
    IF s = <<>> THEN <<>>
    ELSE IF lower(Head(s)) \in {"-", "_", " "} THEN normalize(Tail(s))
    ELSE <<lower(Head(s))>> \o normalize(Tail(s))

\* the registry: <<key, rule class>>
FrozenRules ==
    << <<<<"n", "o", "n", "e">>, "FrozenRuleNone">>,
       <<<<"p", "y", "s", "c", "f">>, "FrozenRuleORCA">>,
       <<<<"o", "r", "c", "a">>, "FrozenRuleORCA">>,
       <<<<"f", "r", "e", "e", "z", "e", "n", "o", "b", "l", "e", "g", "a", "s",
           "c", "o", "r", "e">>, "FrozenRuleNobleGasCore">>,
       <<<<"f", "r", "e", "e", "z", "e", "i", "n", "n", "e", "r", "n", "o", "b",
           "l", "e", "g", "a", "s", "c", "o", "r", "e">>, "FrozenRuleInnerNobleGasCore">>,
       <<<<"s", "m", "a", "l", "l", "c", "o", "r", "e">>, "FrozenRuleSmallCore">>,
       <<<<"l", "a", "r", "g", "e", "c", "o", "r", "e">>, "FrozenRuleLargeCore">> >>
HasRule(key) == \E i \in 1..Len(FrozenRules) : FrozenRules[i][1] = key
RuleOf(key) == FrozenRules[CHOOSE i \in 1..Len(FrozenRules) : FrozenRules[i][1] = key][2]

-----------------------------------------------------------------------------
(* gto.Mole as FrozenCore reads it: atoms [symbol, atom_charge] and charge  *)

Atom(symbol, atom_charge) == [symbol |-> symbol, atom_charge |-> atom_charge]
Mole(atoms, chg) == [atoms |-> atoms, charge |-> chg]
natm(m) == Len(m.atoms)
\* mol.nelectron: the atoms' charges (ECP cores removed) minus the total charge
nelectron(m) == SumSeq([i \in 1..Len(m.atoms) |-> m.atoms[i].atom_charge]) - m.charge

-----------------------------------------------------------------------------
(* FrozenCore.check_sanity *)

\* x.round() of an occupation number, half to even, in units of 1/Den
round(x) ==
    LET q == x \div Den
        r == x % Den
    IN  IF 2 * r < Den THEN q * Den
        ELSE IF 2 * r > Den THEN (q + 1) * Den
        ELSE IF q % 2 = 0 THEN q * Den ELSE (q + 1) * Den

\* np.allclose on two arrays of the same shape: its tolerance (1e-8 + 1e-5 |b|)
\* is below the 1/Den resolution, so the values are close iff they are equal
allclose(xs, ys) == \A k \in 1..Len(xs) : xs[k] = ys[k]

\* row c of the occupations, sorted ascending and reversed, equals the row
row_sorted_desc(a, c, nmo) ==
    \A j \in 1..(nmo - 1) : a.flat[c * nmo + j] >= a.flat[c * nmo + j + 1]

sanity_sorted(a) ==
    LET nmo == a.shape[Len(a.shape)]
    IN  \A c \in 0..((Len(a.flat) \div nmo) - 1) : row_sorted_desc(a, c, nmo)

sanity_ndim(self) == ndim(self.mo_occ) \in {1, 2}
sanity_sum(self) == SumSeq(self.mo_occ.flat) = nelectron(self.mol) * Den
sanity_shape(self) ==
    self.mo_energy.tag # "None" => self.mo_occ.shape = self.mo_energy.v.shape
sanity_integral(self) ==
    allclose([k \in 1..Len(self.mo_occ.flat) |-> round(self.mo_occ.flat[k])],
             self.mo_occ.flat)

\* check_sanity without the order check
check_sanity_unordered(self) ==
    IF ~sanity_ndim(self) THEN Raise("AssertionError", "check_sanity")
    ELSE IF ~sanity_sum(self) THEN Raise("AssertionError", "check_sanity")
    ELSE IF ~sanity_shape(self) THEN Raise("AssertionError", "check_sanity")
    ELSE IF ~sanity_integral(self) THEN Raise("AssertionError", "check_sanity")
    ELSE Ok(0)

check_sanity(self) ==
    IF ~sanity_ndim(self) THEN Raise("AssertionError", "check_sanity")
    ELSE IF ~sanity_sum(self) THEN Raise("AssertionError", "check_sanity")
    ELSE IF ~sanity_shape(self) THEN Raise("AssertionError", "check_sanity")
    ELSE IF ~sanity_integral(self) THEN Raise("AssertionError", "check_sanity")
    ELSE IF ~sanity_sorted(self.mo_occ) THEN Raise("AssertionError", "check_sanity")
    ELSE Ok(0)

-----------------------------------------------------------------------------
(* FrozenCore.parse_frozen_numbers *)

\* the lookup that takes the first entry of the mapping, whatever its key
dict_get_first(pairs, nchrg) == pairs[1][2]

\* rule = {elements.charge(key): val ...}[nchrg]: the last pair of that charge
dict_has(pairs, nchrg) == \E i \in 1..Len(pairs) : charge(pairs[i][1]) = nchrg
dict_get(pairs, nchrg) ==
    pairs[SetMax({i \in 1..Len(pairs) : charge(pairs[i][1]) = nchrg})][2]

\* "determine frozen-core number of atom": <<f_occ_atom, f_vir_atom>> before ECP
atom_rule_numbers(rule_atom, nchrg) ==
    LET occ_only(n) == Ok(<<n, 0>>)
    IN
    IF rule_atom.tag = "str"
    THEN IF ~HasRule(normalize(rule_atom.v))
         THEN Raise("KeyError", "parse_frozen_numbers")
         ELSE Bind(get_num_core(RuleOf(normalize(rule_atom.v)), PyInt(nchrg)), occ_only)
    ELSE IF rule_atom.tag = "FrozenRuleBase"
    THEN Bind(get_num_core(rule_atom.v, PyInt(nchrg)), occ_only)
    ELSE IF rule_atom.tag = "tuple"
    THEN IF Len(rule_atom.v) # 2
         THEN Raise("ValueError", "parse_frozen_numbers")
         ELSE Ok(<<rule_atom.v[1].v, rule_atom.v[2].v>>)
    ELSE Ok(<<0, 0>>)

\* ecp_finalize subtracting the ECP core without the min
ecp_finalize_no_min(f_occ_atom, nchrg, nelec, ecp_only_) ==
    LET is_ecp == nelec # nchrg
    IN  IF is_ecp /\ ecp_only_ THEN 0
        ELSE IF is_ecp THEN f_occ_atom - (nchrg - nelec)
        ELSE f_occ_atom

\* ecp_finalize not looking at ecp_only
ecp_finalize_no_flag(f_occ_atom, nchrg, nelec, ecp_only_) ==
    LET is_ecp == nelec # nchrg
    IN  IF is_ecp THEN f_occ_atom - Min(f_occ_atom, nchrg - nelec)
        ELSE f_occ_atom

\* "finalize frozen core evaluation of atom": f_occ_atom after the ECP accounting
ecp_finalize(f_occ_atom, nchrg, nelec, ecp_only_) ==
    LET is_ecp == nelec # nchrg
    IN  IF is_ecp /\ ecp_only_ THEN 0
        ELSE IF is_ecp THEN f_occ_atom - Min(f_occ_atom, nchrg - nelec)
        ELSE f_occ_atom

\* one pass of the loop body for atom idx (1-based): <<f_occ_atom, f_vir_atom>>
atom_frozen(m, rule_, ecp_only_, idx) ==
    LET nelec == m.atoms[idx].atom_charge
        nchrg == charge(PyStr(m.atoms[idx].symbol))
    IN  IF rule_.tag = "dict" /\ ~dict_has(rule_.v, nchrg)
        THEN Raise("KeyError", "parse_frozen_numbers")
        ELSE LET rule_atom == IF rule_.tag = "dict" THEN dict_get(rule_.v, nchrg) ELSE rule_
                 finalize(r) == Ok(<<ecp_finalize(r[1], nchrg, nelec, ecp_only_), r[2]>>)
             IN  Bind(atom_rule_numbers(rule_atom, nchrg), finalize)

\* the loop over the atoms from atom idx on, with the running totals
RECURSIVE frozen_loop(_, _, _, _, _, _)
frozen_loop(m, rule_, ecp_only_, idx, f_occ, f_vir) ==
    IF idx > natm(m) THEN Ok(<<f_occ, f_vir>>)
    ELSE LET add(a) == frozen_loop(m, rule_, ecp_only_, idx + 1,
                                   f_occ + a[1], f_vir + a[2])
         IN  Bind(atom_frozen(m, rule_, ecp_only_, idx), add)

\* parse_frozen_numbers sending a top-level tuple through the loop over atoms
parse_frozen_numbers_tuple_per_atom(m, rule_, ecp_only_) ==
    IF rule_.tag = "None" THEN Ok(<<0, 0>>)
    ELSE frozen_loop(m, rule_, ecp_only_, 1, 0, 0)

parse_frozen_numbers(m, rule_, ecp_only_) ==
    IF rule_.tag = "None" THEN Ok(<<0, 0>>)
    ELSE IF rule_.tag = "tuple"
    THEN IF Len(rule_.v) = 2 /\ rule_.v[1].tag = "int" /\ rule_.v[2].tag = "int"
         THEN Ok(<<rule_.v[1].v, rule_.v[2].v>>)
         ELSE Raise("AssertionError", "parse_frozen_numbers")
    ELSE frozen_loop(m, rule_, ecp_only_, 1, 0, 0)

-----------------------------------------------------------------------------
(* FrozenCore mask generation *)

\* int(x) of an occupation number: truncation toward zero
int(x) == IF x >= 0 THEN x \div Den ELSE -((-x) \div Den)

\* Python a // d for d # 0 when d divides a
floordiv(a, d) == IF d > 0 THEN a \div d ELSE (-a) \div (-d)
\* the divisibility test that lets every count through
divides_always(d, a) == TRUE
divides(d, a) == IF d > 0 THEN a % d = 0 ELSE (-a) % (-d) = 0

\* the indices j of range(n) selected by the slices [:k] and [-k:] (k > 0)
slice_to(k, n) == {j \in 0..(n - 1) : IF k >= 0 THEN j < k ELSE j < n + k}
slice_last(k, n) == {j \in 0..(n - 1) : j >= n - k}

\* the mask that freezes from the low end only
parse_active_mask_by_elec_occ_only(mo_occ_, f_occ, f_vir) ==
    LET nunit == mo_occ_.shape[1] * int(MaxSeq(mo_occ_.flat))
        frz(c, j) == j >= floordiv(f_occ, nunit)
    IN  IF ndim(mo_occ_) # 2 THEN Raise("AssertionError", "parse_active_mask_by_elec")
        ELSE IF nunit = 0 THEN Raise("ZeroDivisionError", "parse_active_mask_by_elec")
        ELSE IF ~(divides(nunit, f_occ) /\ divides(nunit, f_vir))
        THEN Raise("ValueError", "parse_active_mask_by_elec")
        ELSE Ok(Build2(mo_occ_.shape[1], mo_occ_.shape[2], frz))

parse_active_mask_by_elec(mo_occ_, f_occ, f_vir) ==
    IF ndim(mo_occ_) # 2 THEN Raise("AssertionError", "parse_active_mask_by_elec")
    ELSE
        LET orb_elec == int(MaxSeq(mo_occ_.flat))
            nset == mo_occ_.shape[1]
            nmo == mo_occ_.shape[2]
        IN  IF nset * orb_elec = 0
            THEN Raise("ZeroDivisionError", "parse_active_mask_by_elec")
            ELSE IF ~(divides(nset * orb_elec, f_occ) /\ divides(nset * orb_elec, f_vir))
            THEN Raise("ValueError", "parse_active_mask_by_elec")
            ELSE
                LET n_occ_frz == floordiv(f_occ, nset * orb_elec)
                    n_vir_frz == floordiv(f_vir, nset * orb_elec)
                    frz(c, j) ==
                        ~(j \in slice_to(n_occ_frz, nmo)
                          \/ (n_vir_frz > 0 /\ j \in slice_last(n_vir_frz, nmo)))
                IN  Ok(Build2(nset, nmo, frz))

\* the energy window taking its first bound as the lower and its second as
\* the upper one
parse_active_mask_by_energy_window_as_given(mo_occ_, mo_energy_, energy_window) ==
    IF mo_energy_.tag = "None"
    THEN Raise("AttributeError", "parse_active_mask_by_energy_window")
    ELSE IF mo_occ_.shape # mo_energy_.v.shape
    THEN Raise("AssertionError", "parse_active_mask_by_energy_window")
    ELSE IF Len(energy_window.v) # 2
    THEN Raise("AssertionError", "parse_active_mask_by_energy_window")
    ELSE Ok([shape |-> mo_energy_.v.shape,
             flat |-> [k \in 1..Len(mo_energy_.v.flat) |->
                          /\ mo_energy_.v.flat[k] >= energy_window.v[1].v
                          /\ mo_energy_.v.flat[k] <= energy_window.v[2].v]])

\* energy_window: a Python tuple of numbers; mo_energy_: PyNone or PyArray
parse_active_mask_by_energy_window(mo_occ_, mo_energy_, energy_window) ==
    IF mo_energy_.tag = "None"
    THEN Raise("AttributeError", "parse_active_mask_by_energy_window")
    ELSE IF mo_occ_.shape # mo_energy_.v.shape
    THEN Raise("AssertionError", "parse_active_mask_by_energy_window")
    ELSE IF Len(energy_window.v) # 2
    THEN Raise("AssertionError", "parse_active_mask_by_energy_window")
    ELSE
        LET lo == MinSeq([i \in 1..2 |-> energy_window.v[i].v])
            hi == MaxSeq([i \in 1..2 |-> energy_window.v[i].v])
        IN  Ok([shape |-> mo_energy_.v.shape,
                flat |-> [k \in 1..Len(mo_energy_.v.flat) |->
                             mo_energy_.v.flat[k] >= lo /\ mo_energy_.v.flat[k] <= hi]])

parse_active_mask_by_gaussian_window(mo_occ_, gaussian_window) ==
    IF ndim(mo_occ_) # 2
    THEN Raise("AssertionError", "parse_active_mask_by_gaussian_window")
    ELSE Raise("NotImplementedError", "parse_active_mask_by_gaussian_window")

\* isinstance(x, list or np.ndarray): "list or np.ndarray" is list
isinstance_list_or_ndarray(x) == x.tag = "list"

\* isinstance(x, "str"): the second argument is a string, not a type
isinstance_str(x) == Raise("TypeError", "get_active_mask")

\* hasattr(x, "__iter__")
has_iter(x) == x.tag \in {"list", "tuple", "str", "ndarray", "dict"}

\* numpy's index i into an axis of length n: wraps a negative index
in_axis(i, n) == -n <= i /\ i < n
wrap(i, n) == IF i < 0 THEN i + n ELSE i
idx_set(arr, n) == {wrap(arr[k].v, n) : k \in 1..Len(arr)}
idx_ok(arr, n) == \A k \in 1..Len(arr) : in_axis(arr[k].v, n)

\* case 1 of get_active_mask: the rule is a list
mask_by_list(arr, nset, nmo) ==
    IF Len(arr) = 0 THEN Raise("IndexError", "get_active_mask")      \* arr[0]
    ELSE IF ~has_iter(arr[1])
    THEN IF ~idx_ok(arr, nmo) THEN Raise("IndexError", "get_active_mask")
         ELSE LET one(c, j) == j \notin idx_set(arr, nmo)
              IN  Ok(Build2(nset, nmo, one))
    ELSE IF Len(arr) # nset THEN Raise("AssertionError", "get_active_mask")
    ELSE IF \E i \in 1..Len(arr) : ~idx_ok(arr[i].v, nmo)
    THEN Raise("IndexError", "get_active_mask")
    ELSE LET each(c, j) == j \notin idx_set(arr[c + 1].v, nmo)
         IN  Ok(Build2(nset, nmo, each))

\* case 2 of get_active_mask, once rule[0] is known to be a string
mask_by_window(rule_, mo_occ_, mo_energy_, nset, nmo) ==
    IF normalize(rule_.v[1].v) =
           <<"e", "n", "e", "r", "g", "y", "w", "i", "n", "d", "o", "w">>
    THEN IF Len(rule_.v) < 2 THEN Raise("IndexError", "get_active_mask")
         ELSE parse_active_mask_by_energy_window(mo_occ_, mo_energy_, rule_.v[2])
    ELSE IF Len(rule_.v) < 3 THEN Raise("IndexError", "get_active_mask")   \* rule[2]
    ELSE IF rule_.v[3].tag # "str" THEN Raise("TypeError", "get_active_mask")
    ELSE IF normalize(rule_.v[3].v) =
           <<"g", "a", "u", "s", "s", "i", "a", "n", "w", "i", "n", "d", "o", "w">>
    THEN parse_active_mask_by_gaussian_window(mo_occ_, rule_.v[2])
    ELSE LET ones(c, j) == TRUE IN Ok(Build2(nset, nmo, ones))

\* case 3 of get_active_mask: rule-based frozen core
mask_by_rule(self, mo_occ_) ==
    LET by_elec(f) == parse_active_mask_by_elec(mo_occ_, f[1], f[2])
    IN  Bind(parse_frozen_numbers(self.mol, self.rule, self.ecp_only), by_elec)

\* the dispatch on self.rule
mask_dispatch(self, mo_occ_, mo_energy_, nset, nmo) ==
    IF isinstance_list_or_ndarray(self.rule)
    THEN mask_by_list(self.rule.v, nset, nmo)
    ELSE IF self.rule.tag = "tuple"
    THEN IF Len(self.rule.v) = 0 THEN Raise("IndexError", "get_active_mask")
         ELSE LET case(is_str) ==
                      IF is_str
                      THEN mask_by_window(self.rule, mo_occ_, mo_energy_, nset, nmo)
                      ELSE mask_by_rule(self, mo_occ_)
              IN  Bind(isinstance_str(self.rule.v[1]), case)
    ELSE mask_by_rule(self, mo_occ_)

\* self = [mol, mo_occ, mo_energy, rule, ecp_only]
get_active_mask(self) ==
    LET nset == IF ndim(self.mo_occ) = 2 THEN self.mo_occ.shape[1] ELSE 1
        nmo == self.mo_occ.shape[Len(self.mo_occ.shape)]
        mo_occ_ == IF ndim(self.mo_occ) = 2 THEN self.mo_occ ELSE Reshape1(self.mo_occ)
        mo_energy_ ==
            IF self.mo_energy.tag = "None" THEN PyNone
            ELSE IF ndim(self.mo_energy.v) = 1 THEN self.mo_energy
            ELSE PyArray(Reshape1(self.mo_energy.v))
        \* mask.shape = self.mo_occ.shape
        reshaped(m) ==
            IF Len(m.flat) # Len(self.mo_occ.flat)
            THEN Raise("ValueError", "get_active_mask")
            ELSE Ok(WithShape(m, self.mo_occ.shape))
        build(sane) ==
            IF mo_energy_.tag # "None" /\ mo_occ_.shape # mo_energy_.v.shape
            THEN Raise("AssertionError", "get_active_mask")
            ELSE Bind(mask_dispatch(self, mo_occ_, mo_energy_, nset, nmo), reshaped)
    IN  Bind(check_sanity(self), build)

\* np.arange(n)[row] from index j on (1-based): the indices where the boolean
\* row is True, ascending
RECURSIVE arange_from(_, _)
arange_from(row, j) ==
    IF j > Len(row) THEN <<>>
    ELSE IF row[j] THEN <<j - 1>> \o arange_from(row, j + 1)
    ELSE arange_from(row, j + 1)
arange_where(row) == arange_from(row, 1)

\* the value frozen() computes from the mask
frozen_of(mask_) ==
    IF ndim(mask_) = 1 THEN arange_where(mask_.flat)
    ELSE [n \in 1..mask_.shape[1] |->
             arange_where(SubSeq(mask_.flat, (n - 1) * mask_.shape[2] + 1,
                                 n * mask_.shape[2]))]

-----------------------------------------------------------------------------
(* RDHBase of pyscf.dh.energy.rdhbase: the reordering of the orbitals by   *)
(* the active mask.  mask_act is a sequence of booleans, orbital j at       *)
(* position j + 1; index arrays and 1-D arrays are sequences                *)

\* np.arange(nmo)
mo_idx(n) == [k \in 1..n |-> k - 1]
\* mo_idx[mask_act] (keep = TRUE) and mo_idx[~mask_act] (keep = FALSE)
mo_idx_where(mask_act, keep) ==
    SelectSeq(mo_idx(Len(mask_act)), LAMBDA j : mask_act[j + 1] = keep)
\* xs[:n] and xs[n:] for n >= 0
slice_head(xs, n) == SubSeq(xs, 1, Min(n, Len(xs)))
slice_tail(xs, n) == SubSeq(xs, Min(n, Len(xs)) + 1, Len(xs))
\* the number of entries of xs equal to b: xs.sum() for b = TRUE
count_of(xs, b) == Cardinality({k \in 1..Len(xs) : xs[k] = b})

shuffle_frz_occ(mask_act, nocc) ==
    slice_head(mo_idx_where(mask_act, FALSE), nocc)
        \o slice_head(mo_idx_where(mask_act, TRUE), nocc)
shuffle_frz_vir(mask_act, nocc) ==
    slice_tail(mo_idx_where(mask_act, TRUE), nocc)
        \o slice_tail(mo_idx_where(mask_act, FALSE), nocc)
get_shuffle_frz(mask_act, nocc) ==
    shuffle_frz_occ(mask_act, nocc) \o shuffle_frz_vir(mask_act, nocc)

nCore(mask_act, nocc) == count_of(slice_head(mask_act, nocc), FALSE)
nOcc(mask_act, nocc) == count_of(slice_head(mask_act, nocc), TRUE)
nVir(mask_act, nocc) == count_of(slice_tail(mask_act, nocc), TRUE)
nFrzvir(mask_act, nocc) == count_of(slice_tail(mask_act, nocc), FALSE)
nact(mask_act) == count_of(mask_act, TRUE)

get_idx_frz_categories(mask_act, nocc) ==
    <<nCore(mask_act, nocc), nocc, nocc + nVir(mask_act, nocc), Len(mask_act)>>

\* the properties mo_energy and mo_coeff of RDHBase: self.scf.mo_energy and
\* the columns of self.scf.mo_coeff taken in the shuffled order
rdh_mo_energy(scf_mo_energy, mask_act, nocc) ==
    [k \in 1..Len(mask_act) |-> scf_mo_energy[get_shuffle_frz(mask_act, nocc)[k] + 1]]
rdh_mo_coeff(scf_mo_coeff, mask_act, nocc) ==
    [r \in 1..Len(scf_mo_coeff) |->
        [k \in 1..Len(mask_act) |-> scf_mo_coeff[r][get_shuffle_frz(mask_act, nocc)[k] + 1]]]

mo_energy_act(scf_mo_energy, mask_act, nocc) ==
    SubSeq(rdh_mo_energy(scf_mo_energy, mask_act, nocc),
           nCore(mask_act, nocc) + 1,
           Min(nCore(mask_act, nocc) + nact(mask_act), Len(mask_act)))
mo_coeff_act(scf_mo_coeff, mask_act, nocc) ==
    [r \in 1..Len(scf_mo_coeff) |->
        SubSeq(rdh_mo_coeff(scf_mo_coeff, mask_act, nocc)[r],
               nCore(mask_act, nocc) + 1,
               Min(nCore(mask_act, nocc) + nact(mask_act), Len(mask_act)))]

-----------------------------------------------------------------------------
(* The FrozenCore object: its fields, the memoized properties, reset *)

Self ==
    [mol |-> mol, mo_occ |-> mo_occ, mo_energy |-> mo_energy,
     rule |-> rule, ecp_only |-> ecp_only]

Unset == [tag |-> "unset", v |-> 0]
\* a value held by a cache or a history variable
Cached(x) == [tag |-> "value", v |-> x]

\* the mask property when it evaluates get_active_mask with outcome g
mask_eval(cache_, g) ==
    [res |-> g,
     cache |-> IF g.exc = "none" THEN Cached(g.val) ELSE cache_,
     evaluated |-> TRUE]

\* the mask property without its cache test
mask_get_uncached(cache_, self) == mask_eval(cache_, get_active_mask(self))

\* the mask property on cache value cache_: what it returns or raises, the
\* cache afterwards, and whether get_active_mask was evaluated
mask_get(cache_, self) ==
    IF cache_.tag = "NotImplemented"
    THEN mask_eval(cache_, get_active_mask(self))
    ELSE [res |-> Ok(cache_.v), cache |-> cache_, evaluated |-> FALSE]

\* the history after an access of the mask property with outcome r
Accessed(r) ==
    /\ nEval' = IF r.evaluated THEN Min(nEval + 1, MaxEval) ELSE nEval
    /\ nOk' = IF r.evaluated /\ r.res.exc = "none" THEN Min(nOk + 1, MaxEval) ELSE nOk
    /\ lastRead' = IF r.res.exc = "none" THEN Cached(r.res.val) ELSE lastRead
    /\ firstRes' = IF firstRes.tag = "unset" THEN Cached(get_active_mask(Self))
                   ELSE firstRes
    /\ snapOk' = IF snapOk.tag = "unset" /\ r.res.exc = "none" THEN Cached(Self)
                 ELSE snapOk

\* the mask property read with outcome r
mask_read(r) ==
    /\ _mask' = r.cache
    /\ ret' = Called("mask", r.res, 0)
    /\ Accessed(r)
    /\ UNCHANGED <<inputs, _frozen>>

\* x = fc.mask
mask == mask_read(mask_get(_mask, Self))

\* frozen() storing its indices without the mask they were taken from
frozen_fill_without_mask(r) ==
    /\ _frozen' = IF r.res.exc = "none" THEN Cached(frozen_of(r.res.val)) ELSE _frozen
    /\ ret' = IF r.res.exc = "none"
              THEN Called("frozen", Ok(frozen_of(r.res.val)), 0)
              ELSE Called("frozen", r.res, 0)
    /\ Accessed(r)
    /\ UNCHANGED <<inputs, _mask>>

\* frozen() when self._frozen is NotImplemented and self.mask had outcome r
frozen_fill(r) ==
    /\ _mask' = r.cache
    /\ _frozen' = IF r.res.exc = "none" THEN Cached(frozen_of(r.res.val)) ELSE _frozen
    /\ ret' = IF r.res.exc = "none"
              THEN Called("frozen", Ok(frozen_of(r.res.val)), 0)
              ELSE Called("frozen", r.res, 0)
    /\ Accessed(r)
    /\ UNCHANGED inputs

\* x = fc.frozen()
frozen ==
    IF _frozen.tag = "NotImplemented"
    THEN frozen_fill(mask_get(_mask, Self))
    ELSE /\ ret' = Called("frozen", Ok(_frozen.v), 0)
         /\ UNCHANGED <<inputs, _mask, _frozen, history>>

\* reset clearing the frozen-index cache only
reset_frozen_only ==
    /\ _frozen' = NotImplemented
    /\ ret' = Called("reset", Ok(0), 0)
    /\ nEval' = 0
    /\ nOk' = 0
    /\ lastRead' = Unset
    /\ firstRes' = Unset
    /\ snapOk' = Unset
    /\ UNCHANGED <<inputs, _mask>>

\* fc.reset()
reset ==
    /\ _mask' = NotImplemented
    /\ _frozen' = NotImplemented
    /\ ret' = Called("reset", Ok(0), 0)
    /\ nEval' = 0
    /\ nOk' = 0
    /\ lastRead' = Unset
    /\ firstRes' = Unset
    /\ snapOk' = Unset
    /\ UNCHANGED inputs

\* x = fc.get_active_mask()
call_get_active_mask ==
    /\ ret' = Called("get_active_mask", get_active_mask(Self), 0)
    /\ UNCHANGED <<inputs, _mask, _frozen, history>>

\* x = FrozenCore.parse_frozen_numbers(fc.mol, fc.rule, fc.ecp_only)
call_parse_frozen_numbers ==
    /\ ret' = Called("parse_frozen_numbers", parse_frozen_numbers(mol, rule, ecp_only), 0)
    /\ UNCHANGED <<inputs, _mask, _frozen, history>>

\* x = FrozenCore.parse_active_mask_by_energy_window(fc.mo_occ, fc.mo_energy, w)
call_energy_window(w) ==
    /\ ret' = Called("parse_active_mask_by_energy_window",
                     parse_active_mask_by_energy_window(mo_occ, mo_energy, w), w)
    /\ UNCHANGED <<inputs, _mask, _frozen, history>>

\* x = ElementConfiguration(element).get_configuration_table()
call_get_configuration_table ==
    LET table(e) == IF configuration_assert(e)
                    THEN Ok(get_configuration_table(e))
                    ELSE Raise("AssertionError", "get_configuration_table")
    IN  /\ ret' = Called("get_configuration_table",
                         Bind(ElementConfiguration(pending.element), table), 0)
        /\ UNCHANGED <<inputs, _mask, _frozen, history>>

\* x = ElementConfiguration(element).get_active_table(level, is_active)
call_get_active_table ==
    LET active(e) == get_active_table(e, pending.level, pending.is_active)
    IN  /\ ret' = Called("get_active_table",
                         Bind(ElementConfiguration(pending.element), active), 0)
        /\ UNCHANGED <<inputs, _mask, _frozen, history>>

\* x = ElementConfiguration(element).get_num_core_electrons(level, is_active)
call_get_num_core_electrons ==
    LET core(e) == get_num_core_electrons(e, pending.level, pending.is_active)
    IN  /\ ret' = Called("get_num_core_electrons",
                         Bind(ElementConfiguration(pending.element), core), 0)
        /\ UNCHANGED <<inputs, _mask, _frozen, history>>

\* x = FrozenCore.parse_active_mask_by_elec(fc.mo_occ, f_occ, f_vir)
call_parse_active_mask_by_elec ==
    /\ ret' = Called("parse_active_mask_by_elec",
                     parse_active_mask_by_elec(mo_occ, pending.f_occ, pending.f_vir), 0)
    /\ UNCHANGED <<inputs, _mask, _frozen, history>>

\* x = mf.get_shuffle_frz(), mf.get_idx_frz_categories(), mf.mo_energy_act,
\* mf.mo_coeff_act of an RDHBase mf
call_get_shuffle_frz ==
    /\ ret' = Called("get_shuffle_frz",
                     Ok(get_shuffle_frz(pending.mask_act, pending.nocc)), 0)
    /\ UNCHANGED <<inputs, _mask, _frozen, history>>
call_get_idx_frz_categories ==
    /\ ret' = Called("get_idx_frz_categories",
                     Ok(get_idx_frz_categories(pending.mask_act, pending.nocc)), 0)
    /\ UNCHANGED <<inputs, _mask, _frozen, history>>
call_mo_energy_act ==
    /\ ret' = Called("mo_energy_act",
                     Ok(mo_energy_act(pending.mo_energy, pending.mask_act, pending.nocc)), 0)
    /\ UNCHANGED <<inputs, _mask, _frozen, history>>
call_mo_coeff_act ==
    /\ ret' = Called("mo_coeff_act",
                     Ok(mo_coeff_act(pending.mo_coeff, pending.mask_act, pending.nocc)), 0)
    /\ UNCHANGED <<inputs, _mask, _frozen, history>>

\* x = FrozenRules[fc.rule].get_num_core(element)
call_get_num_core ==
    LET core(e) == get_num_core(RuleOf(rule.v), PyInt(e))
    IN  /\ ret' = Called("get_num_core",
                         IF HasRule(rule.v)
                         THEN Bind(ElementConfiguration(pending.element), core)
                         ELSE Raise("KeyError", "FrozenRules"),
                         0)
        /\ UNCHANGED <<inputs, _mask, _frozen, history>>

\* fc.rule = r, fc.mo_occ = a, fc.mo_energy = e, fc.ecp_only = b
set_rule(r) ==
    /\ rule' = r
    /\ ret' = NoCall
    /\ UNCHANGED <<mol, mo_occ, mo_energy, ecp_only, pending, _mask, _frozen, history>>
set_mo_occ(a) ==
    /\ mo_occ' = a
    /\ ret' = NoCall
    /\ UNCHANGED <<mol, mo_energy, rule, ecp_only, pending, _mask, _frozen, history>>
set_mo_energy(e) ==
    /\ mo_energy' = e
    /\ ret' = NoCall
    /\ UNCHANGED <<mol, mo_occ, rule, ecp_only, pending, _mask, _frozen, history>>
set_ecp_only(b) ==
    /\ ecp_only' = b
    /\ ret' = NoCall
    /\ UNCHANGED <<mol, mo_occ, mo_energy, rule, pending, _mask, _frozen, history>>

\* FrozenCore.__init__: the derived attributes of a new object
Constructed ==
    /\ _mask = NotImplemented
    /\ _frozen = NotImplemented
    /\ ret = NoCall
    /\ nEval = 0
    /\ nOk = 0
    /\ lastRead = Unset
    /\ firstRes = Unset
    /\ snapOk = Unset

-----------------------------------------------------------------------------
(* Inputs *)

He == <<"H", "e">>
Li == <<"L", "i">>
Be == <<"B", "e">>
Ne == <<"N", "e">>
Mg == <<"M", "g">>
Ar == <<"A", "r">>

MolHe == Mole(<<Atom(He, 2)>>, 0)
MolBe == Mole(<<Atom(Be, 4)>>, 0)
MolNe == Mole(<<Atom(Ne, 10)>>, 0)
MolLiH == Mole(<<Atom(Li, 3), Atom(<<"H">>, 1)>>, 0)
\* atoms with an effective core potential: atom_charge below the nuclear charge
MolMgEcp == Mole(<<Atom(Mg, 2)>>, 0)            \* 10 of 12 electrons removed
MolArEcp == Mole(<<Atom(Ar, 8)>>, 0)            \* 10 of 18 electrons removed
MolNeEcp == Mole(<<Atom(Ne, 8)>>, 0)            \* 2 of 10 electrons removed
MolArEcpBe == Mole(<<Atom(Ar, 8), Atom(Be, 4)>>, 0)
MolMgEcpNeEcp == Mole(<<Atom(Mg, 2), Atom(Ne, 8)>>, 0)
\* a molecule without atoms
MolEmpty == Mole(<<>>, 0)

\* occupation numbers given in electrons
Occ(xs) == [k \in 1..Len(xs) |-> xs[k] * Den]
Occ1(xs) == Arr1(Occ(xs))
Occ2(rows) == Arr2([c \in 1..Len(rows) |-> Occ(rows[c])])
\* two half-integral occupations: 1 + 1/Den and 1 - 1/Den electrons
OccFractional == Arr1(<<Den + 1, Den - 1>>)

Str(chars) == PyStr(chars)
Ints(xs) == [k \in 1..Len(xs) |-> PyInt(xs[k])]
IndexList(xs) == PyList(Ints(xs))
IndexLists(xss) == PyList([c \in 1..Len(xss) |-> IndexList(xss[c])])
\* np.array(xs) of orbital indices
IndexArray(xs) == PyArray(Arr1(xs))
Pair(a, b) == PyTuple(<<PyInt(a), PyInt(b)>>)
Window(lo, hi) == PyTuple(<<PyFloat(lo), PyFloat(hi)>>)
NameEnergyWindow == <<"E", "n", "e", "r", "g", "y", "W", "i", "n", "d", "o", "w">>
NameGaussianWindow ==
    <<"G", "a", "u", "s", "s", "i", "a", "n", "-", "W", "i", "n", "d", "o", "w">>
EnergyWindowRule(lo, hi) == PyTuple(<<Str(NameEnergyWindow), Window(lo, hi)>>)
GaussianWindowRule(lo, hi) == PyTuple(<<Str(NameGaussianWindow), Window(lo, hi)>>)
NameORCA == <<"O", "R", "C", "A">>
NameNone == <<"n", "o", "n", "e">>
NameNobleGas ==
    <<"F", "r", "e", "e", "z", "e", "-", "N", "o", "b", "l", "e", "_", "G", "a", "s",
      " ", "C", "o", "r", "e">>
NameUnknown == <<"c", "o", "r", "e">>
NameNobleGasPlain ==
    <<"f", "r", "e", "e", "z", "e", "n", "o", "b", "l", "e", "g", "a", "s", "c", "o",
      "r", "e">>
NameOrcaSpaced == <<"o", "r", "-", "c", "_", "a", " ">>
NameSmallCore == <<"S", "m", "a", "l", "l", "_", "C", "o", "r", "e">>
NameNobleGasDot == <<"N", "o", "b", "l", "e", ".", "G", "a", "s">>
\* names in several spellings, two of them of no registry key
RuleNames ==
    {NameORCA, NameOrcaSpaced, NameNone, NameNobleGas, NameNobleGasPlain,
     NameSmallCore, NameUnknown, NameNobleGasDot}

\* occupation arrays of molecule m with v virtual orbitals
Filled(n, x, v) == [k \in 1..(n + v) |-> IF k <= n THEN x ELSE 0]
Reversed(xs) == [k \in 1..Len(xs) |-> xs[Len(xs) + 1 - k]]
ClosedShell(m, v) == Occ1(Filled(nelectron(m) \div 2, 2, v))
OneChannel(m, v) == Occ2(<<Filled(nelectron(m) \div 2, 2, v)>>)
OpenShell(m, v) ==
    Occ2(<<Filled(nelectron(m) \div 2, 1, v), Filled(nelectron(m) \div 2, 1, v)>>)
GoodOccs(m) ==
    UNION {{ClosedShell(m, v), OneChannel(m, v), OpenShell(m, v)} : v \in 1..MaxVirt}
\* arrays that break one pre-condition each: order, order in the second
\* channel only, integrality, electron count, number of dimensions
BadOccs(m) ==
    {Occ1(Reversed(Filled(nelectron(m) \div 2, 2, 1))),
     Occ2(<<Filled(nelectron(m) \div 2, 1, 1),
            Reversed(Filled(nelectron(m) \div 2, 1, 1))>>),
     Arr1(<<Den + 1>> \o Occ(Filled((nelectron(m) \div 2) - 1, 2, 0)) \o <<Den - 1>>),
     Occ1(Filled((nelectron(m) \div 2) + 1, 2, 1)),
     Arr3(<<Occ(Filled(nelectron(m) \div 2, 2, 1))>>)}

\* orbital energies of a given shape, ascending from -MaxEnergy
EnergiesOf(shape) ==
    PyArray([shape |-> shape, flat |-> [k \in 1..Prod(shape) |-> k - 1 - MaxEnergy]])
\* None, energies of the occupations' shape, energies one orbital too long
EnergiesFor(a) ==
    {PyNone, EnergiesOf(a.shape),
     EnergiesOf([i \in 1..Len(a.shape) |->
                    IF i = Len(a.shape) THEN a.shape[i] + 1 ELSE a.shape[i]])}

EnergyLevels == (-MaxEnergy)..MaxEnergy
Windows == {Window(lo, hi) : lo \in EnergyLevels, hi \in EnergyLevels}

Symbols == {<<"H">>, He, Li, Be, Ne, Mg, Ar}
SubRules ==
    {Str(NameNone), Str(NameORCA), Str(NameNobleGas), PyRule("FrozenRuleSmallCore"),
     Pair(0, 0), Pair(4, 2), Pair(10, 0), PyInt(2)}
\* the mapping that gives every element the sub-rule sub
DictAll(sub) ==
    PyDict(<< <<Str(<<"H">>), sub>>, <<Str(He), sub>>, <<Str(Li), sub>>,
              <<PyInt(4), sub>>, <<Str(Ne), sub>>, <<PyInt(12), sub>>,
              <<Str(Ar), sub>> >>)
DictMixed ==
    PyDict(<< <<Str(Ar), Pair(10, 2)>>, <<Str(Be), Str(NameNobleGas)>>,
              <<PyInt(12), Pair(4, 0)>>, <<Str(Ne), Pair(2, 2)>> >>)

\* rules of every accepted form for occupations with nmo orbitals
RulesBuild(nmo) ==
    {PyNone, PyInt(2), PyList(<<>>), IndexList(<<0, 1>>),
     IndexLists(<<<<0>>, <<0, 1>>>>), IndexLists(<<<<1>>>>),
     IndexLists(<<<<>>, <<1>>>>), IndexArray(<<0>>), IndexArray(<<0, 1>>),
     Pair(0, 0), Pair(2, 0), Pair(0, 2), Pair(2, 2), Pair(1, 0),
     EnergyWindowRule(-MaxEnergy, 0), EnergyWindowRule(0, -1),
     GaussianWindowRule(-MaxEnergy, 0),
     Str(NameORCA), Str(NameNone), Str(NameNobleGas), Str(NameUnknown),
     DictAll(Str(NameNobleGas)), DictMixed,
     DictAll(Pair(1, 0)), DictAll(Pair(2, 1)), DictAll(Pair(2, 2)), DictAll(Pair(4, 0))}
    \cup {IndexList(<<i>>) : i \in 0..(nmo - 1)}

\* a mapping whose entry for argon is a name of no registry key
DictUnknownForAr ==
    PyDict(<< <<Str(He), Str(NameNobleGas)>>, <<PyInt(4), Str(NameORCA)>>,
              <<Str(Ne), Str(NameNobleGasPlain)>>, <<Str(Ar), Str(NameUnknown)>> >>)

RulesResolve ==
    {PyNone, Pair(2, 0), Pair(4, 2), IndexList(<<0>>), Str(NameUnknown), DictMixed}
    \cup SubRules
    \cup {Str(n) : n \in RuleNames}
    \cup {DictUnknownForAr}
    \cup {DictAll(sub) : sub \in SubRules}

MolsBuild == {MolHe, MolBe, MolNe, MolLiH, MolMgEcp}
MolsResolve ==
    {MolHe, MolBe, MolNe, MolLiH, MolMgEcp, MolArEcp, MolNeEcp, MolArEcpBe,
     MolMgEcpNeEcp, MolEmpty}

-----------------------------------------------------------------------------
(* Specifications *)

\* one FrozenCore on a Be atom through its life: reads, resets and
\* assignments to its inputs
OccsLife ==
    {ClosedShell(MolBe, v) : v \in 1..MaxVirt}
    \cup {Occ1(Reversed(Filled(2, 2, 1)))}
EnergiesLife == {PyNone, EnergiesOf(<<3>>)}
RulesLife ==
    {PyNone, IndexList(<<0>>), IndexList(<<1>>), Str(NameNobleGas), Pair(2, 0)}

Init ==
    /\ mol = MolBe
    /\ mo_occ \in OccsLife
    /\ mo_energy \in EnergiesLife
    /\ rule \in RulesLife
    /\ ecp_only \in BOOLEAN
    /\ pending = Unset
    /\ Constructed

Next ==
    \/ mask
    \/ frozen
    \/ reset
    \/ call_get_active_mask
    \/ \E r \in RulesLife : set_rule(r)
    \/ \E a \in OccsLife : set_mo_occ(a)
    \/ \E e \in EnergiesLife : set_mo_energy(e)
    \/ \E b \in BOOLEAN : set_ecp_only(b)

Spec == Init /\ [][Next]_vars

\* a FrozenCore constructed on any inputs, then its mask built
InitBuild ==
    /\ mol \in MolsBuild
    /\ mo_occ \in GoodOccs(mol) \cup BadOccs(mol)
    /\ mo_energy \in EnergiesFor(mo_occ)
    /\ rule \in RulesBuild(mo_occ.shape[Len(mo_occ.shape)])
    /\ ecp_only \in BOOLEAN
    /\ pending = Unset
    /\ Constructed

NextBuild ==
    \/ mask
    \/ frozen
    \/ call_get_active_mask

SpecBuild == InitBuild /\ [][NextBuild]_vars

\* the static energy-window builder on any arrays and any window
InitWindow ==
    /\ mol \in {MolHe, MolBe}
    /\ mo_occ \in GoodOccs(mol) \cup BadOccs(mol)
    /\ mo_energy \in EnergiesFor(mo_occ)
    /\ rule = PyNone
    /\ ecp_only = FALSE
    /\ pending = Unset
    /\ Constructed

NextWindow == \E w \in Windows : call_energy_window(w)

SpecWindow == InitWindow /\ [][NextWindow]_vars

\* the static frozen-number resolver on any molecule and rule
InitResolve ==
    /\ mol \in MolsResolve
    /\ mo_occ = ClosedShell(mol, 1)
    /\ mo_energy = PyNone
    /\ rule \in RulesResolve
    /\ ecp_only \in BOOLEAN
    /\ pending = Unset
    /\ Constructed

NextResolve == call_parse_frozen_numbers

SpecResolve == InitResolve /\ [][NextResolve]_vars

\* ElementConfiguration on every element of the table and the one beyond
\* it, and get_active_table on every level vector up to MaxCount
Elements == {PyInt(Z) : Z \in 0..Len(CONFIGURATION)} \cup {Str(Ar)}
LevelVectors == {PyList(v) : v \in [1..MAX_ANG -> 0..MaxCount]}
Levels ==
    LevelVectors
    \cup {PyInt(n) : n \in 0..MaxCount}
    \cup {PyList(<<1, 1, 1>>), PyList(<<0, -1, 0, 0>>)}

InitTable ==
    /\ mol = MolHe
    /\ mo_occ = ClosedShell(MolHe, 1)
    /\ mo_energy = PyNone
    /\ rule = PyNone
    /\ ecp_only = FALSE
    /\ pending \in [element : Elements, level : Levels, is_active : BOOLEAN]
    /\ Constructed

NextTable ==
    \/ call_get_configuration_table
    \/ call_get_active_table

SpecTable == InitTable /\ [][NextTable]_vars

\* the frozen-electron count of an element next to its active table
NextCore ==
    \/ call_get_active_table
    \/ call_get_num_core_electrons

SpecCore == InitTable /\ [][NextCore]_vars

\* a FrozenCore whose rule is a key of the registry (or a name that is
\* none), next to the registry entry of that key asked about any element
RegistryKeys ==
    {Str(FrozenRules[i][1]) : i \in 1..Len(FrozenRules)} \cup {Str(NameUnknown)}
MolsRule == {MolHe, MolNe, MolMgEcp, MolArEcpBe}

InitRule ==
    /\ mol \in MolsRule
    /\ mo_occ \in {ClosedShell(mol, 1), OpenShell(mol, 1)}
    /\ mo_energy = PyNone
    /\ rule \in RegistryKeys
    /\ ecp_only \in BOOLEAN
    /\ pending \in [element : Elements]
    /\ Constructed

NextRule ==
    \/ mask
    \/ call_get_num_core

SpecRule == InitRule /\ [][NextRule]_vars

\* the static electron-count mask builder on any occupations and counts
FrozenCounts == (-2)..MaxFrozen

InitElec ==
    /\ mol \in {MolHe, MolBe}
    /\ mo_occ \in GoodOccs(mol)
    /\ mo_energy = PyNone
    /\ rule = PyNone
    /\ ecp_only = FALSE
    /\ pending \in [f_occ : FrozenCounts, f_vir : FrozenCounts]
    /\ Constructed

NextElec == call_parse_active_mask_by_elec

SpecElec == InitElec /\ [][NextElec]_vars

\* an RDHBase with any active mask over its orbitals and any number of
\* occupied orbitals; orbital j has the energy j and the coefficients
\* (10 + j, 20 + j) in two atomic orbitals
MasksAct == UNION {[1..n -> BOOLEAN] : n \in 1..MaxOrbitals}
ScfOf(mask_act, nocc) ==
    [mask_act |-> mask_act,
     nocc |-> nocc,
     mo_energy |-> [k \in 1..Len(mask_act) |-> k - 1],
     mo_coeff |-> [r \in 1..2 |-> [k \in 1..Len(mask_act) |-> 10 * r + k - 1]]]

InitShuffle ==
    /\ mol = MolHe
    /\ mo_occ = ClosedShell(MolHe, 1)
    /\ mo_energy = PyNone
    /\ rule = PyNone
    /\ ecp_only = FALSE
    /\ pending \in {ScfOf(m, n) : m \in MasksAct, n \in 0..MaxOrbitals}
    /\ pending.nocc <= Len(pending.mask_act)
    /\ Constructed

NextShuffle ==
    \/ call_get_shuffle_frz
    \/ call_get_idx_frz_categories
    \/ call_mo_energy_act
    \/ call_mo_coeff_act

SpecShuffle == InitShuffle /\ [][NextShuffle]_vars

-----------------------------------------------------------------------------
(* Properties *)

\* the pre-conditions of mask construction, as the specification words them
Channels(a) == IF ndim(a) = 2 THEN a.shape[1] ELSE 1
Orbitals(a) == a.shape[Len(a.shape)]
Elem(a, c, j) == a.flat[c * Orbitals(a) + j + 1]
OccDims(a) == ndim(a) \in {1, 2}
OccTotal(m, a) == SumSeq(a.flat) = nelectron(m) * Den
OccIntegral(a) == \A k \in 1..Len(a.flat) : a.flat[k] % Den = 0
OccNonIncreasing(a) ==
    \A c \in 0..((Len(a.flat) \div Orbitals(a)) - 1) :
        \A j \in 0..(Orbitals(a) - 2) : Elem(a, c, j) >= Elem(a, c, j + 1)
OccValid(m, a) == OccDims(a) /\ OccTotal(m, a) /\ OccIntegral(a) /\ OccNonIncreasing(a)
MaxOccupation(a) == MaxSeq(a.flat) \div Den

IsIntPair(r) ==
    r.tag = "tuple" /\ Len(r.v) = 2 /\ r.v[1].tag = "int" /\ r.v[2].tag = "int"
IsWindowRule(r, name) ==
    /\ r.tag = "tuple"
    /\ Len(r.v) = 2
    /\ r.v[1].tag = "str"
    /\ normalize(r.v[1].v) = name
IsSingleIndex(r) ==
    r.tag = "list" /\ Len(r.v) = 1 /\ r.v[1].tag = "int"

\* C1: a mask read with an integer pair (f_occ, f_vir) as the rule, both
\* divisible by channels * max occupation, returns a mask that is False
\* exactly at the lowest f_occ / (channels * max occupation) and the highest
\* f_vir / (channels * max occupation) orbitals of every channel.
C1_PairRuleFreezesWholeOrbitals ==
    (/\ ret.op = "mask"
     /\ IsIntPair(rule)
     /\ mo_energy.tag = "None"
     /\ OccValid(mol, mo_occ)
     /\ MaxOccupation(mo_occ) > 0
     /\ rule.v[1].v % (Channels(mo_occ) * MaxOccupation(mo_occ)) = 0
     /\ rule.v[2].v % (Channels(mo_occ) * MaxOccupation(mo_occ)) = 0)
    => /\ ret.exc = "none"
       /\ ret.val.shape = mo_occ.shape
       /\ \A c \in 0..(Channels(mo_occ) - 1) : \A j \in 0..(Orbitals(mo_occ) - 1) :
            Elem(ret.val, c, j) =
                ~(\/ j < rule.v[1].v \div (Channels(mo_occ) * MaxOccupation(mo_occ))
                  \/ j >= Orbitals(mo_occ)
                          - rule.v[2].v \div (Channels(mo_occ) * MaxOccupation(mo_occ)))

\* C2: with the rule [i] on a valid 1-D occupation array, the mask is False
\* only at i and frozen() returns exactly [i].
C2_FrozenReturnsFrozenIndex ==
    (/\ ret.op = "frozen"
     /\ IsSingleIndex(rule)
     /\ rule.v[1].v \in 0..(Orbitals(mo_occ) - 1)
     /\ ndim(mo_occ) = 1
     /\ mo_energy.tag = "None"
     /\ OccValid(mol, mo_occ))
    => /\ ret.exc = "none"
       /\ _mask.tag = "value"
       /\ \A j \in 0..(Orbitals(mo_occ) - 1) : Elem(_mask.v, 0, j) = (j # rule.v[1].v)
       /\ ret.val = <<rule.v[1].v>>

\* C3 as stated: between two resets get_active_mask is evaluated at most once.
C3_EvaluatedAtMostOnce == nEval <= 1

\* C3 amended: a mask read that returns gives the array the previous
\* returning read gave, as long as no reset came between them, and between
\* two resets at most one evaluation of get_active_mask returns (one that
\* raises caches nothing and is repeated by the next read).
C3_MaskIdempotent ==
    /\ [][(lastRead.tag = "value" /\ lastRead'.tag = "value") => lastRead' = lastRead]_vars
    /\ [](nOk <= 1)

\* two returning reads with a changed input between them: the second one
\* returned the cached array, not the mask of the current inputs
C3_Witness ==
    /\ ret.op = "mask"
    /\ ret.exc = "none"
    /\ nEval = 1
    /\ nOk = 1
    /\ get_active_mask(Self).exc = "none"
    /\ get_active_mask(Self).val # ret.val

\* C4 as stated: the mask returned is get_active_mask of the inputs as they
\* stood at the first access after the most recent reset.
C4_MaskOfFirstAccess ==
    (ret.op = "mask" /\ ret.exc = "none")
    => /\ firstRes.tag = "value"
       /\ firstRes.v.exc = "none"
       /\ firstRes.v.val = ret.val

\* C4 amended: the cached mask, and so the mask a read returns, is
\* get_active_mask of the inputs as they stood at the first access after the
\* most recent reset that returned; reset leaves both caches empty.
C4_CacheValid ==
    /\ _mask.tag = "value"
        => /\ snapOk.tag = "value"
           /\ get_active_mask(snapOk.v).exc = "none"
           /\ get_active_mask(snapOk.v).val = _mask.v
    /\ (ret.op = "mask" /\ ret.exc = "none")
        => /\ _mask.tag = "value"
           /\ ret.val = _mask.v
    /\ ret.op = "reset"
        => /\ _mask.tag = "NotImplemented"
           /\ _frozen.tag = "NotImplemented"

\* a read returned the cached mask while the inputs, changed since without a
\* reset, no longer pass get_active_mask
C4_Witness ==
    /\ ret.op = "mask"
    /\ ret.exc = "none"
    /\ snapOk.tag = "value"
    /\ snapOk.v.mo_occ # mo_occ
    /\ get_active_mask(Self).exc = "AssertionError"

\* C5: with the rule ("EnergyWindow", (low, high)) and energies of the
\* occupations' shape, the mask read is True exactly where
\* min(low, high) <= e <= max(low, high), and has the occupations' shape.
C5_EnergyWindowMask ==
    (/\ ret.op = "mask"
     /\ IsWindowRule(rule, <<"e", "n", "e", "r", "g", "y", "w", "i", "n", "d", "o", "w">>)
     /\ mo_energy.tag = "ndarray"
     /\ mo_energy.v.shape = mo_occ.shape
     /\ OccValid(mol, mo_occ))
    => /\ ret.exc = "none"
       /\ ret.val.shape = mo_occ.shape
       /\ \A k \in 1..Len(mo_occ.flat) :
            ret.val.flat[k] =
                (/\ Min(rule.v[2].v[1].v, rule.v[2].v[2].v) <= mo_energy.v.flat[k]
                 /\ mo_energy.v.flat[k] <= Max(rule.v[2].v[1].v, rule.v[2].v[2].v))

\* C6: for arrays of equal shape the energy-window mask of (low, high) is
\* the mask of (high, low).
C6_WindowOrderIndependent ==
    (/\ ret.op = "parse_active_mask_by_energy_window"
     /\ mo_energy.tag = "ndarray"
     /\ mo_energy.v.shape = mo_occ.shape)
    => /\ ret.exc = "none"
       /\ parse_active_mask_by_energy_window(
              mo_occ, mo_energy, PyTuple(<<ret.arg.v[2], ret.arg.v[1]>>)).exc = "none"
       /\ parse_active_mask_by_energy_window(
              mo_occ, mo_energy, PyTuple(<<ret.arg.v[2], ret.arg.v[1]>>)).val = ret.val

\* a window given as (low, high) with low > high that selects some orbitals
\* and leaves others out
C6_Witness ==
    /\ ret.op = "parse_active_mask_by_energy_window"
    /\ ret.exc = "none"
    /\ ret.arg.v[1].v > ret.arg.v[2].v
    /\ \E k \in 1..Len(ret.val.flat) : ret.val.flat[k]
    /\ \E k \in 1..Len(ret.val.flat) : ~ret.val.flat[k]

\* C7: building the mask with a Gaussian-window rule fails with a
\* NotImplementedError.
C7_GaussianNotImplemented ==
    (/\ ret.op \in {"mask", "get_active_mask"}
     /\ IsWindowRule(rule, <<"g", "a", "u", "s", "s", "i", "a", "n", "w", "i", "n",
                            "d", "o", "w">>)
     /\ mo_energy.tag = "None"
     /\ OccValid(mol, mo_occ))
    => ret.exc = "NotImplementedError"

\* C8: whatever the rule, get_active_mask returns a mask only if the
\* occupations have 1 or 2 dimensions, sum to the electron count, are
\* integral and non-increasing in every channel; otherwise check_sanity
\* raises before any mode runs.
C8_SanityGatesEveryMode ==
    ret.op \in {"mask", "get_active_mask", "frozen"}
    => /\ ret.exc = "none" => OccValid(mol, mo_occ)
       /\ ~OccValid(mol, mo_occ)
            => ret.exc = "AssertionError" /\ ret.at = "check_sanity"

\* occupations in order and integral whose sum is not the electron count,
\* under an index-list rule: the sanity error
C8_Witness ==
    /\ ret.op = "get_active_mask"
    /\ rule.tag = "list"
    /\ OccDims(mo_occ) /\ OccIntegral(mo_occ) /\ OccNonIncreasing(mo_occ)
    /\ ~OccTotal(mol, mo_occ)
    /\ ret.exc = "AssertionError"
    /\ ret.at = "check_sanity"

\* the sub-rule of atom idx, its nuclear charge, and the numbers
\* <<occupied, virtual>> the sub-rule gives before the ECP accounting
NuclearCharge(idx) == charge(PyStr(mol.atoms[idx].symbol))
SubRuleOf(idx) ==
    IF rule.tag = "dict" THEN dict_get(rule.v, NuclearCharge(idx)) ELSE rule
RuleValue(idx) == atom_rule_numbers(SubRuleOf(idx), NuclearCharge(idx)).val
HasEcp(idx) == mol.atoms[idx].atom_charge # NuclearCharge(idx)
EcpCore(idx) == NuclearCharge(idx) - mol.atoms[idx].atom_charge
PerAtomRule == rule.tag \notin {"None", "tuple"}

\* C9: with ecp_only = False an atom with an ECP contributes
\* r - min(r, nchrg - nelec) frozen occupied electrons, never a negative
\* number, and an atom without one contributes r.
C9_EcpReducesQuota ==
    (/\ ret.op = "parse_frozen_numbers"
     /\ ret.exc = "none"
     /\ PerAtomRule
     /\ ~ecp_only)
    => /\ \A idx \in 1..natm(mol) :
            /\ atom_frozen(mol, rule, ecp_only, idx).val[1] =
                   IF HasEcp(idx)
                   THEN RuleValue(idx)[1] - Min(RuleValue(idx)[1], EcpCore(idx))
                   ELSE RuleValue(idx)[1]
            /\ HasEcp(idx) => atom_frozen(mol, rule, ecp_only, idx).val[1] >= 0
       /\ ret.val[1] =
            SumSeq([idx \in 1..natm(mol) |->
                       IF HasEcp(idx)
                       THEN RuleValue(idx)[1] - Min(RuleValue(idx)[1], EcpCore(idx))
                       ELSE RuleValue(idx)[1]])

\* argon with 10 of its 18 electrons in the ECP and a rule worth 10: nothing
\* more is frozen
C9_Witness ==
    /\ ret.op = "parse_frozen_numbers"
    /\ ret.exc = "none"
    /\ ~ecp_only
    /\ mol = MolArEcp
    /\ rule.tag = "str"
    /\ RuleValue(1)[1] = 10
    /\ ret.val[1] = 0

\* C10: with ecp_only = True an atom with an ECP contributes no frozen
\* occupied electron, an atom without one its full rule value, and the
\* totals returned are the sums over the atoms.
C10_EcpOnlySuppresses ==
    (/\ ret.op = "parse_frozen_numbers"
     /\ ret.exc = "none"
     /\ PerAtomRule
     /\ ecp_only)
    => /\ ret.val[1] =
            SumSeq([idx \in 1..natm(mol) |->
                       IF HasEcp(idx) THEN 0 ELSE RuleValue(idx)[1]])
       /\ ret.val[2] = SumSeq([idx \in 1..natm(mol) |-> RuleValue(idx)[2]])

\* an atom with an ECP whose sub-rule is worth 10 beside an atom without one
C10_Witness ==
    /\ ret.op = "parse_frozen_numbers"
    /\ ret.exc = "none"
    /\ ecp_only
    /\ natm(mol) = 2
    /\ HasEcp(1) /\ ~HasEcp(2)
    /\ RuleValue(1) = <<10, 2>>
    /\ RuleValue(2)[1] > 0
    /\ ret.val = <<RuleValue(2)[1], 2>>

\* C11: parse_frozen_numbers with a pair of integers as the rule returns that
\* pair, whatever the molecule (atoms with an ECP included) and ecp_only.
C11_PairReturnedAsIs ==
    (ret.op = "parse_frozen_numbers" /\ IsIntPair(rule))
    => /\ ret.exc = "none"
       /\ ret.val = <<rule.v[1].v, rule.v[2].v>>

\* the pair (4, 2) on a molecule of two atoms with an ECP each, ecp_only off:
\* returned as it is, neither summed over the atoms nor reduced
C11_Witness ==
    /\ ret.op = "parse_frozen_numbers"
    /\ ret.exc = "none"
    /\ rule = Pair(4, 2)
    /\ ~ecp_only
    /\ natm(mol) = 2
    /\ HasEcp(1) /\ HasEcp(2)
    /\ ret.val = <<4, 2>>

\* a name lower-cased, its '-', '_' and ' ' characters removed
IsSeparator(c) == c \in {"-", "_", " "}
Canonical(name) == SelectSeq([i \in 1..Len(name) |-> lower(name[i])],
                             LAMBDA c : ~IsSeparator(c))
Outcome(call) == [exc |-> call.exc, at |-> call.at, val |-> call.val]

\* the entry a mapping rule stores for the element of atom idx
HasEntry(idx) ==
    \E i \in 1..Len(rule.v) : charge(rule.v[i][1]) = NuclearCharge(idx)
StoredRule(idx) ==
    rule.v[CHOOSE i \in 1..Len(rule.v) : charge(rule.v[i][1]) = NuclearCharge(idx)][2]
AllStored == \A idx \in 1..natm(mol) : HasEntry(idx)

\* C12 as stated: a rule name that normalizes to no registry key fails with
\* an error.
C12_UnknownNameFails ==
    (/\ ret.op = "parse_frozen_numbers"
     /\ rule.tag = "str"
     /\ ~HasRule(Canonical(rule.v)))
    => ret.exc # "none"

\* C12 amended: two names equal after lower-casing and removal of '-', '_'
\* and ' ' give the same outcome on every molecule, the outcome of the
\* registry rule stored under that key; a name of no registry key raises
\* KeyError when it is looked up for an atom, so on a molecule without atoms
\* it returns (0, 0).
C12_NamesNormalized ==
    /\ (ret.op = "parse_frozen_numbers" /\ rule.tag = "str")
        => /\ \A n \in RuleNames :
                Canonical(n) = Canonical(rule.v)
                => parse_frozen_numbers(mol, Str(n), ecp_only) = Outcome(ret)
           /\ HasRule(Canonical(rule.v))
                => parse_frozen_numbers(mol, PyRule(RuleOf(Canonical(rule.v))),
                                        ecp_only) = Outcome(ret)
           /\ ~HasRule(Canonical(rule.v))
                => IF natm(mol) > 0
                   THEN ret.exc = "KeyError"
                   ELSE ret.exc = "none" /\ ret.val = <<0, 0>>
    \* a name stored in a mapping raises KeyError exactly when an atom of the
    \* molecule looks it up
    /\ (/\ ret.op = "parse_frozen_numbers"
        /\ rule.tag = "dict"
        /\ AllStored
        /\ \A idx \in 1..natm(mol) : StoredRule(idx).tag = "str")
        => (ret.exc = "KeyError"
            <=> \E idx \in 1..natm(mol) : ~HasRule(Canonical(StoredRule(idx).v)))

\* "Freeze-Noble_Gas Core" on an atom with a core: the count of the registry
\* rule under "freezenoblegascore"
C12_Witness ==
    /\ ret.op = "parse_frozen_numbers"
    /\ rule = Str(NameNobleGas)
    /\ NameNobleGas # NameNobleGasPlain
    /\ ret.exc = "none"
    /\ ret.val[1] > 0
    /\ parse_frozen_numbers(mol, Str(NameNobleGasPlain), ecp_only) = Outcome(ret)

\* C13: with a mapping rule every atom uses the sub-rule stored under its
\* own nuclear charge (the key an element symbol or an atomic number), so a
\* mapping that stores the same named rule R for every element of the
\* molecule gives the outcome of R alone, and the totals are the sums of what
\* each atom's own sub-rule gives.
C13_MappingDispatch ==
    (ret.op = "parse_frozen_numbers" /\ rule.tag = "dict" /\ AllStored)
    => /\ \A idx \in 1..natm(mol) :
            atom_frozen(mol, rule, ecp_only, idx)
                = atom_frozen(mol, PyDict(<< <<PyInt(NuclearCharge(idx)),
                                               StoredRule(idx)>> >>), ecp_only, idx)
       /\ \A R \in SubRules :
            (/\ R.tag \in {"str", "FrozenRuleBase"}
             /\ \A idx \in 1..natm(mol) : StoredRule(idx) = R)
            => Outcome(ret) = parse_frozen_numbers(mol, R, ecp_only)
       /\ ret.exc = "none"
            => /\ ret.val[1] =
                    SumSeq([idx \in 1..natm(mol) |->
                               ecp_finalize(atom_rule_numbers(StoredRule(idx),
                                                NuclearCharge(idx)).val[1],
                                            NuclearCharge(idx),
                                            mol.atoms[idx].atom_charge, ecp_only)])
               /\ ret.val[2] =
                    SumSeq([idx \in 1..natm(mol) |->
                               atom_rule_numbers(StoredRule(idx),
                                                 NuclearCharge(idx)).val[2]])

\* two atoms of different elements, one under a pair and one under a named
\* rule of the same mapping
C13_Witness ==
    /\ ret.op = "parse_frozen_numbers"
    /\ ret.exc = "none"
    /\ rule = DictMixed
    /\ natm(mol) = 2
    /\ StoredRule(1).tag = "tuple"
    /\ StoredRule(2).tag = "str"
    /\ ret.val[2] = StoredRule(1).v[2].v

\* the forms of an index-list rule: a flat list of orbital indices, or a list
\* of such lists
IsIndexSeq(items, nmo) ==
    \A k \in 1..Len(items) : items[k].tag = "int" /\ items[k].v \in 0..(nmo - 1)
IsFlatList(r, nmo) == r.tag = "list" /\ IsIndexSeq(r.v, nmo)
IsPerChannelList(r, nmo) ==
    /\ r.tag = "list"
    /\ Len(r.v) > 0
    /\ \A c \in 1..Len(r.v) : r.v[c].tag = "list" /\ IsIndexSeq(r.v[c].v, nmo)
Listed(r, c, j) ==
    IF IsFlatList(r, Orbitals(mo_occ))
    THEN \E k \in 1..Len(r.v) : r.v[k].v = j
    ELSE \E k \in 1..Len(r.v[c + 1].v) : r.v[c + 1].v[k].v = j

\* C14: with a list rule the mask is False at [c][j] exactly when j is
\* listed for channel c: a flat list lists its indices for every channel, a
\* list of per-channel lists lists those of list c for channel c and raises
\* when its length is not the number of channels.
C14_IndexListMask ==
    (/\ ret.op \in {"mask", "get_active_mask"}
     /\ mo_energy.tag = "None"
     /\ OccValid(mol, mo_occ)
     /\ \/ IsFlatList(rule, Orbitals(mo_occ))
        \/ IsPerChannelList(rule, Orbitals(mo_occ)))
    => IF IsPerChannelList(rule, Orbitals(mo_occ)) /\ Len(rule.v) # Channels(mo_occ)
       THEN ret.exc # "none"
       ELSE /\ ret.exc = "none"
            /\ ret.val.shape = mo_occ.shape
            /\ \A c \in 0..(Channels(mo_occ) - 1) : \A j \in 0..(Orbitals(mo_occ) - 1) :
                    Elem(ret.val, c, j) = ~Listed(rule, c, j)

\* C15: a rule given as an array of orbital indices gives the mask the same
\* indices give as a list: False at those indices, True elsewhere.
C15_ArrayRuleAsList ==
    (/\ ret.op \in {"mask", "get_active_mask"}
     /\ rule.tag = "ndarray"
     /\ mo_energy.tag = "None"
     /\ OccValid(mol, mo_occ))
    => /\ ret.exc = "none"
       /\ ret.val.shape = mo_occ.shape
       /\ \A c \in 0..(Channels(mo_occ) - 1) : \A j \in 0..(Orbitals(mo_occ) - 1) :
            Elem(ret.val, c, j) = ~(\E k \in 1..Len(rule.v.flat) : rule.v.flat[k] = j)

\* the rules of the rule-based mode, and what they resolve to
IsRuleBased(r) == r.tag \in {"None", "str", "dict", "FrozenRuleBase"}
Resolved == parse_frozen_numbers(mol, rule, ecp_only)
OrbitalUnit == Channels(mo_occ) * MaxOccupation(mo_occ)

TableCall(name) == ret.op = name
OnElement(Z) == pending.element = PyInt(Z)
KnownElements == 0..(Len(CONFIGURATION) - 1)
OnKnownElement == pending.element.tag = "int" /\ pending.element.v \in KnownElements
Capacity(c) == 2 + 4 * c
LevelsOf == 0..(MAX_LEVEL - 1)
ColumnsOf == 0..(MAX_ANG - 1)
Electrons(T) ==
    SumSeq([n \in 1..MAX_LEVEL |-> SumSeq([c \in 1..MAX_ANG |-> T[n - 1][c - 1]])])

\* C17: for every element 0..118 get_configuration_table returns a table whose
\* cells add up to the sum of the element's CONFIGURATION row, whose cells of
\* column c hold between 0 and 2 + 4c electrons, and in which the occupied
\* levels of a column lie side by side, all of them full but possibly the last
C17_ConfigurationTable ==
    (TableCall("get_configuration_table") /\ OnKnownElement) =>
        /\ ret.exc = "none"
        /\ Electrons(ret.val) = SumSeq(CONFIGURATION[pending.element.v + 1])
        /\ \A n \in LevelsOf, c \in ColumnsOf : ret.val[n][c] \in 0..Capacity(c)
        /\ \A c \in ColumnsOf : \A n, m \in LevelsOf :
                (n < m /\ ret.val[m][c] > 0) =>
                    /\ ret.val[n][c] > 0 => ret.val[n][c] = Capacity(c)
                    /\ ret.val[n][c] = 0 => \A k \in 0..n : ret.val[k][c] = 0

\* the table of iron: 3d holds 6 of its 10 electrons above the full shells
C17_Witness ==
    /\ TableCall("get_configuration_table")
    /\ OnElement(26)
    /\ ret.exc = "none"
    /\ ret.val[2][2] = 6
    /\ ret.val[3][0] = 2
    /\ ret.val[2][1] = 6

\* C18: for every element and both directions, get_active_table called with
\* an integer level n has the outcome of the call with the vector [n, n, n, n]
C18_IntegerLevelAccepted ==
    (TableCall("get_active_table") /\ OnKnownElement /\ pending.level.tag = "int") =>
        LET n == pending.level.v
        IN  Outcome(ret) =
                get_active_table(pending.element.v, PyList(<<n, n, n, n>>),
                                 pending.is_active)

\* the highest occupied level of column c, the electrons of a column below a
\* cut, and the outcome of zeroing every column below its cut when each of
\* the stripped parts is a whole number of shells
Occupied(T, c) == \E n \in LevelsOf : T[n][c] > 0
Highest(T, c) ==
    CHOOSE n \in LevelsOf : T[n][c] > 0 /\ \A m \in LevelsOf : m > n => T[m][c] = 0
Below(T, cut, c) ==
    SumSeq([n \in 1..MAX_LEVEL |-> IF n - 1 < cut THEN T[n - 1][c] ELSE 0])
Cleared(T, cut) ==
    [n \in LevelsOf |-> [c \in ColumnsOf |-> IF n < cut[c] THEN 0 ELSE T[n][c]]]
Stripped(T, cut) ==
    IF \E c \in ColumnsOf : Below(T, cut[c], c) % Capacity(c) # 0
    THEN Raise("ValueError", "get_active_table")
    ELSE Ok(Cleared(T, cut))

\* a call get_active_table(N, is_active) with a vector N on a known element
VectorCall(by_valence) ==
    /\ TableCall("get_active_table")
    /\ OnKnownElement
    /\ pending.level.tag = "list"
    /\ pending.level \in LevelVectors
    /\ pending.is_active = by_valence

\* the configuration table of the element of the call
ElementTable == get_configuration_table(pending.element.v)

\* the cut of each column taken from the column itself
CutFromOwnColumn(T, N) ==
    [c \in ColumnsOf |-> IF Occupied(T, c) THEN Highest(T, c) - N[c + 1] + 1 ELSE 0]

\* the cut of each column taken from the s column as it stands when the
\* column is handled: with N[1] = 0 the s column is emptied first, and no
\* other column is touched after that
CutFromSColumn(T, N) ==
    [c \in ColumnsOf |->
        IF ~Occupied(T, 0) THEN 0
        ELSE IF N[1] = 0 THEN (IF c = 0 THEN MAX_LEVEL ELSE 0)
        ELSE Highest(T, 0) - N[c + 1] + 1]

\* C19 as stated: with is_active=True the cut of column c is (highest
\* occupied level of column c) - N_c + 1; the levels of the column below the
\* cut are zeroed, the others kept, and nothing is zeroed in an empty column
\* or for a cut <= 0
C19_CutFromOwnColumn ==
    VectorCall(TRUE) =>
        Outcome(ret) = Stripped(ElementTable, CutFromOwnColumn(ElementTable, pending.level.v))

\* C19 amended: with is_active=True the cut of every column c is (highest
\* occupied level of the s column) - N_c + 1, the s column being read as it
\* stands when column c is handled; ValueError is raised exactly when the
\* electrons of some column below its cut are not whole shells
C19_CutFromSColumn ==
    VectorCall(TRUE) =>
        Outcome(ret) = Stripped(ElementTable, CutFromSColumn(ElementTable, pending.level.v))

\* gallium with one active level per column: the full 3d level, the highest
\* of its own column, is zeroed because it lies below the 4s level
C19_Witness ==
    /\ VectorCall(TRUE)
    /\ OnElement(31)
    /\ pending.level.v = <<1, 1, 1, 1>>
    /\ get_configuration_table(31)[2][2] = 10
    /\ ret.exc = "none"
    /\ ret.val[2][2] = 0
    /\ ret.val[3][0] = 2
    /\ ret.val[3][1] = 1

\* C20: with is_active=False and a vector k of frozen level counts,
\* get_active_table raises ValueError exactly when the electrons of some
\* column c in its levels below k_c are not a multiple of 2 + 4c; otherwise
\* it returns the table with exactly those levels zeroed, and every cell it
\* has zeroed was empty or full
C20_ShellCompleteness ==
    VectorCall(FALSE) =>
        LET k == [c \in ColumnsOf |-> pending.level.v[c + 1]]
            T == ElementTable
        IN  /\ Outcome(ret) = Stripped(T, k)
            /\ ret.exc = "none" =>
                    \A c \in ColumnsOf, n \in LevelsOf :
                        n < k[c] => T[n][c] \in {0, Capacity(c)}

\* carbon with two p levels frozen: 2p holds 2 of 6 electrons, so the call
\* is refused
C20_Witness ==
    /\ VectorCall(FALSE)
    /\ OnElement(6)
    /\ pending.level.v = <<1, 2, 0, 0>>
    /\ get_configuration_table(6)[1][1] = 2
    /\ ret.exc = "ValueError"

\* a call with a vector on a known element, of either table operation
VectorInput ==
    /\ OnKnownElement
    /\ pending.level.tag = "list"
    /\ pending.level \in LevelVectors

\* the cuts the vector of the call stands for on the table T: the frozen
\* level counts themselves, or the cuts that keep the given numbers of levels
\* active
CutsOfCall(T) ==
    IF pending.is_active
    THEN CutFromSColumn(T, pending.level.v)
    ELSE [c \in ColumnsOf |-> pending.level.v[c + 1]]

\* the cuts stand for whole-shell boundaries: below its cut every column
\* holds a whole number of shells
WholeShells(T, cut) ==
    \A c \in ColumnsOf : Below(T, cut[c], c) % Capacity(c) = 0

\* C21: on every known element and every vector that stands for whole-shell
\* boundaries, get_active_table returns a table whose cells are the
\* configuration cells or 0, and get_num_core_electrons returns the
\* configuration total minus the total of the active table, a number between
\* 0 and the configuration total
C21_CoreElectronsConsistent ==
    (ret.op \in {"get_active_table", "get_num_core_electrons"} /\ VectorInput) =>
        LET T == ElementTable
            cut == CutsOfCall(T)
        IN  WholeShells(T, cut) =>
                /\ ret.exc = "none"
                /\ TableCall("get_active_table") =>
                        \A n \in LevelsOf, c \in ColumnsOf : ret.val[n][c] \in {0, T[n][c]}
                /\ TableCall("get_num_core_electrons") =>
                        /\ ret.val \in 0..Electrons(T)
                        /\ ret.val + Electrons(Cleared(T, cut)) = Electrons(T)

\* gallium with one active level per column: 28 of 31 electrons are frozen
C21_Witness ==
    /\ TableCall("get_num_core_electrons")
    /\ VectorInput
    /\ WholeShells(ElementTable, CutsOfCall(ElementTable))
    /\ OnElement(31)
    /\ pending.level.v = <<1, 1, 1, 1>>
    /\ pending.is_active
    /\ ret.exc = "none"
    /\ ret.val = 28

\* the rule of the FrozenCore is the registry key given
RuleKey(key) == rule = Str(key)

\* C22: the registry entry "none" gives 0 frozen electrons for every element
\* 0..118, and a FrozenCore whose rule is "none" reads a mask of the shape of
\* mo_occ that is True everywhere, on molecules with and without ECP
C22_NoneFreezesNothing ==
    RuleKey(<<"n", "o", "n", "e">>) =>
        /\ (TableCall("get_num_core") /\ OnKnownElement) =>
                ret.exc = "none" /\ ret.val = 0
        /\ TableCall("mask") =>
                /\ ret.exc = "none"
                /\ ret.val.shape = mo_occ.shape
                /\ \A k \in 1..Len(ret.val.flat) : ret.val.flat[k] = TRUE

\* the mask of magnesium carrying an ECP, read under the rule "none"
C22_Witness ==
    /\ RuleKey(<<"n", "o", "n", "e">>)
    /\ TableCall("mask")
    /\ mol = MolMgEcp
    /\ ret.exc = "none"
    /\ ret.val.flat = <<TRUE, TRUE>>
    /\ pending.element = PyInt(118)

\* the per-element numbers of the FrozenRuleORCA docstring, X (0) to Og (118)
OrcaDocstring ==
    <<0, 0, 0, 0, 0, 2, 2, 2, 2, 2, 2, 2, 2, 10, 10, 10, 10,
      10, 10, 10, 10, 10, 10, 10, 10, 10, 10, 10, 10, 10, 10, 18, 18, 18,
      18, 18, 18, 18, 18, 28, 28, 28, 28, 28, 28, 28, 10, 28, 28, 36, 36,
      36, 36, 36, 36, 36, 36, 36, 36, 36, 36, 36, 36, 36, 36, 36, 36, 36,
      36, 36, 36, 36, 46, 46, 46, 46, 46, 46, 46, 46, 46, 68, 68, 68, 68,
      68, 68, 68, 68, 68, 68, 68, 68, 68, 68, 68, 68, 68, 68, 68, 68, 68,
      68, 68, 100, 100, 100, 100, 100, 100, 100, 100, 100, 100, 100, 100, 100, 100, 100>>

\* C23: for every element 0..118 the registry entries "orca" and "pyscf"
\* return the number the FrozenRuleORCA docstring prints for the element
C23_OrcaTable ==
    ((RuleKey(<<"o", "r", "c", "a">>) \/ RuleKey(<<"p", "y", "s", "c", "f">>))
        /\ TableCall("get_num_core") /\ OnKnownElement) =>
            /\ ret.exc = "none"
            /\ ret.val = OrcaDocstring[pending.element.v + 1]

\* palladium under "pyscf": 10 frozen electrons between its neighbours' 28
C23_Witness ==
    /\ RuleKey(<<"p", "y", "s", "c", "f">>)
    /\ TableCall("get_num_core")
    /\ OnElement(46)
    /\ ret.exc = "none"
    /\ ret.val = 10

\* the call parse_active_mask_by_elec(mo_occ, f_occ, f_vir) on a 2-D array of
\* whole occupations, with counts that are non-negative multiples of
\* channels * maximum occupation
WholeOrbitalCounts ==
    /\ TableCall("parse_active_mask_by_elec")
    /\ ndim(mo_occ) = 2
    /\ OccIntegral(mo_occ)
    /\ MaxOccupation(mo_occ) > 0
    /\ pending.f_occ >= 0
    /\ pending.f_vir >= 0
    /\ pending.f_occ % OrbitalUnit = 0
    /\ pending.f_vir % OrbitalUnit = 0

\* C24: parse_active_mask_by_elec on a 2-D occupation array, with f_occ and
\* f_vir non-negative multiples of nset * m, returns a mask of the shape of
\* the array, the same in every channel, False exactly at the first
\* f_occ / (nset * m) and the last f_vir / (nset * m) indices; none is False
\* at the high end for f_vir = 0, and min(nmo, n_occ_frz + n_vir_frz) entries
\* of a channel are False
C24_MaskByElectronCount ==
    WholeOrbitalCounts =>
        LET n_occ_frz == pending.f_occ \div OrbitalUnit
            n_vir_frz == pending.f_vir \div OrbitalUnit
            nmo == Orbitals(mo_occ)
        IN  /\ ret.exc = "none"
            /\ ret.val.shape = mo_occ.shape
            /\ \A c \in 0..(Channels(mo_occ) - 1), j \in 0..(nmo - 1) :
                    /\ Elem(ret.val, c, j) = ~(j < n_occ_frz \/ j >= nmo - n_vir_frz)
                    /\ Elem(ret.val, c, j) = Elem(ret.val, 0, j)
            /\ (pending.f_vir = 0 /\ n_occ_frz < nmo) => Elem(ret.val, 0, nmo - 1)
            /\ \A c \in 0..(Channels(mo_occ) - 1) :
                    Cardinality({j \in 0..(nmo - 1) : ~Elem(ret.val, c, j)})
                        = Min(nmo, n_occ_frz + n_vir_frz)

\* a beryllium atom in two spin channels of four orbitals: one orbital
\* frozen at the low end and one at the high end of each channel
C24_Witness ==
    /\ WholeOrbitalCounts
    /\ mol = MolBe
    /\ mo_occ.shape = <<2, 4>>
    /\ pending.f_occ = 2
    /\ pending.f_vir = 2
    /\ ret.exc = "none"
    /\ ret.val.flat = <<FALSE, TRUE, TRUE, FALSE, FALSE, TRUE, TRUE, FALSE>>

\* C25: parse_frozen_numbers with an integer n as the rule returns (n, 0),
\* the counts of the pair (n, 0)
C25_IntegerRuleCounts ==
    (ret.op = "parse_frozen_numbers" /\ rule.tag = "int") =>
        /\ ret.exc = "none"
        /\ ret.val = <<rule.v, 0>>
        /\ Outcome(ret) = parse_frozen_numbers(mol, Pair(rule.v, 0), ecp_only)

\* the four kinds of orbitals of an RDHBase: orbital j is occupied when
\* j < nocc, active when the mask holds at j
FrozenOccupied == {j \in 0..(Len(pending.mask_act) - 1) : j < pending.nocc /\ ~pending.mask_act[j + 1]}
ActiveOccupied == {j \in 0..(Len(pending.mask_act) - 1) : j < pending.nocc /\ pending.mask_act[j + 1]}
ActiveVirtual == {j \in 0..(Len(pending.mask_act) - 1) : j >= pending.nocc /\ pending.mask_act[j + 1]}
FrozenVirtual == {j \in 0..(Len(pending.mask_act) - 1) : j >= pending.nocc /\ ~pending.mask_act[j + 1]}
\* the entries of xs at the positions a + 1 .. b
Entries(xs, a, b) == {xs[k] : k \in (a + 1)..b}

\* C26: get_shuffle_frz returns a permutation of 0..nmo-1 that lists the
\* frozen occupied, the active occupied, the active virtual and the frozen
\* virtual orbitals in this order; get_idx_frz_categories returns the ends of
\* the four blocks; mo_energy_act and mo_coeff_act hold the energies and the
\* coefficient columns of exactly the active orbitals
C26_ShuffleBlocks ==
    LET nmo == Len(pending.mask_act)
        c == Cardinality(FrozenOccupied)
        o == Cardinality(ActiveOccupied)
        v == Cardinality(ActiveVirtual)
    IN  /\ TableCall("get_shuffle_frz") =>
                /\ Len(ret.val) = nmo
                /\ Entries(ret.val, 0, nmo) = 0..(nmo - 1)
                /\ Entries(ret.val, 0, c) = FrozenOccupied
                /\ Entries(ret.val, c, c + o) = ActiveOccupied
                /\ Entries(ret.val, c + o, c + o + v) = ActiveVirtual
                /\ Entries(ret.val, c + o + v, nmo) = FrozenVirtual
        /\ TableCall("get_idx_frz_categories") =>
                ret.val = <<c, c + o, c + o + v, nmo>>
        /\ TableCall("mo_energy_act") =>
                /\ Len(ret.val) = o + v
                /\ Entries(ret.val, 0, o + v)
                       = {pending.mo_energy[j + 1] : j \in ActiveOccupied \cup ActiveVirtual}
        /\ TableCall("mo_coeff_act") =>
                \A r \in 1..Len(pending.mo_coeff) :
                    /\ Len(ret.val[r]) = o + v
                    /\ Entries(ret.val[r], 0, o + v)
                           = {pending.mo_coeff[r][j + 1] :
                                  j \in ActiveOccupied \cup ActiveVirtual}

\* the mask the same FrozenCore builds when it is given no orbital energies
WithoutEnergy == get_active_mask([Self EXCEPT !.mo_energy = PyNone])

\* C27: with a rule that is no window (None, a name, a mapping, an index
\* list) and an mo_energy array of the shape of mo_occ, the mask is built
\* without raising and is the mask built with mo_energy = None
C27_EnergyArrayIgnored ==
    (/\ ret.op \in {"mask", "get_active_mask"}
     /\ rule.tag \in {"None", "str", "dict", "list"}
     /\ mo_energy.tag # "None"
     /\ mo_energy.v.shape = mo_occ.shape
     /\ WithoutEnergy.exc = "none")
    => Outcome(ret) = WithoutEnergy

\* C28: in every reachable state a populated frozen-index cache comes with a
\* populated mask cache and holds the indices taken from that cached mask; a
\* direct get_active_mask() call changes neither cache; a mask read or a
\* frozen() call that raises leaves both caches unpopulated, and a mask read
\* on an unpopulated cache evaluates get_active_mask
C28_CacheCoherence ==
    /\ [](_frozen.tag = "value" =>
            (_mask.tag = "value" /\ _frozen.v = frozen_of(_mask.v)))
    /\ [][ret'.op = "get_active_mask" => (_mask' = _mask /\ _frozen' = _frozen)]_vars
    /\ [][(ret'.op \in {"mask", "frozen"} /\ ret'.exc # "none") =>
            (_mask'.tag = "NotImplemented" /\ _frozen'.tag = "NotImplemented")]_vars
    /\ [][(ret'.op = "mask" /\ _mask.tag = "NotImplemented") =>
            nEval' = Min(nEval + 1, MaxEval)]_vars

\* both caches populated by frozen(), the occupations assigned since: the
\* cached indices are those of the cached mask, not of the current inputs
C28_Witness ==
    /\ ret.op = ""
    /\ _frozen.tag = "value"
    /\ _mask.tag = "value"
    /\ _frozen.v = frozen_of(_mask.v)
    /\ snapOk.tag = "value"
    /\ snapOk.v.mo_occ # mo_occ
    /\ get_active_mask(Self).exc # "none"

=============================================================================
